---- MODULE Spec2Model ----
(***************************************************************************)
(* Model of the audio capture pipeline of oliviamiller/Audio:              *)
(*   - AudioStreamContext (src/src/audio_stream.hpp, audio_stream.cpp):    *)
(*     the single-producer/single-consumer hand-off queue, the history     *)
(*     ring buffer and its two queries;                                    *)
(*   - the MP3 encoder state machine (src/src/mp3_encoder.cpp);            *)
(*   - setupStreamFromConfig (src/src/audio_utils.hpp).                    *)
(*                                                                         *)
(* Nine specifications share the variables:                                *)
(*   Spec     - the AudioStreamContext API called from one thread, every   *)
(*              call running to completion (as the unit tests call it);    *)
(*   SpecConc - one producer thread calling push_chunk and one consumer    *)
(*              thread inside get_new_chunks, interleaved statement by     *)
(*              statement;                                                 *)
(*   SpecConcLive - SpecConc with a consumer thread that is always         *)
(*              scheduled again (weak fairness of its steps);              *)
(*   SpecQuery - SpecConc with a third thread calling the history queries, *)
(*              one slot read per step;                                    *)
(*   SpecEnc  - the encoder API (initialize / encode / flush / cleanup);   *)
(*   SpecCb   - the real-time thread running AudioCallback, the application *)
(*              toggling is_recording;                                     *)
(*   SpecTs   - calculate_sample_timestamp called directly;                *)
(*   SpecSizes - SpecCb on contexts of every chunk sample count from 0;    *)
(*   SpecSetup - setupStreamFromConfig called on a session whose started   *)
(*              stream delivers to its context.                            *)
(***************************************************************************)
EXTENDS Integers, Sequences, FiniteSets, TLC

(***************************************************************************)
(* Bounds of the model.                                                    *)
(***************************************************************************)
\* Capacity of lockfree_queue. The source fixes it at 100
\* (boost::lockfree::capacity<100>, audio_stream.hpp:30); the model keeps the
\* queue's behaviour and scales the number down.
QueueCap == 3
\* history_capacity, the constructor's third argument (default 100; the
\* tests also use 50 and 5).
HistCap == 2
\* Number of push_chunk calls explored.
MaxPushes == 4
\* Largest start timestamp of a pushed chunk; 0 is the "empty" sentinel.
MaxTs == 2

\* end_timestamp_ns - start_timestamp_ns of the chunks pushed (the tests'
\* CreateTestChunk adds 100 ms).
ChunkDur == 1

\* Stands for INT64_MAX, the default end_timestamp_ns of
\* get_chunks_from_timestamp: strictly above every timestamp of the model.
INT64_MAX == MaxTs + MaxPushes + ChunkDur + 1

\* Samples per channel of one codec frame. The source sets 1152
\* (mp3_encoder.cpp:45); the model scales it down.
FrameSize == 2
\* Total number of samples passed to encode_mp3_samples.
MaxSamples == 5

\* Largest number of frames the codec holds back before it emits packets.
MaxLookahead == 1

\* Arguments of initialize_mp3_encoder.
SampleRates == {48000}
ChannelCounts == {1, 2}

\* samples_per_chunk, the constructor's second argument (frames per chunk;
\* 4410 in the tests, sample rate / 10 in setupStreamFromConfig).
SamplesPerChunk == 2
\* Largest framesPerBuffer of one delivery to AudioCallback.
MaxFrames == 3
\* Total number of frames delivered to AudioCallback.
MaxFramesIn == 8
\* setupStreamFromConfig is called at most this many times.
MaxSetupCalls == 2

\* Nanoseconds per second: std::chrono::nanoseconds against
\* std::chrono::duration<double> (seconds).
NsPerSec == 1000000000

\* audio_info of the stream contexts explored: sample rate and channels.
\* 44100 Hz is the tests' rate; 4 Hz is a rate whose sample period is exact
\* in binary floating point.
StreamInfos ==
    {[sample_rate_hz |-> 4, num_channels |-> 2],
     [sample_rate_hz |-> 44100, num_channels |-> 1]}
\* The tests' fixture: audio_info{PCM_16, 44100, 1}.
TestInfo == [sample_rate_hz |-> 44100, num_channels |-> 1]
\* Device-clock times (inputBufferAdcTime) of the deliveries, in ns.
AdcTimes == {0, NsPerSec \div 10}
\* system_clock::now(), ns since the epoch, when the device clock shows t:
\* the two clocks advance together.
WallClockAt(t) == 1000 + t

Timestamps == 0..MaxTs
QueryStarts == 0..MaxTs
QueryEnds == (1..MaxTs) \cup {INT64_MAX}

(***************************************************************************)
(* vsdk::AudioIn::audio_chunk. audio_data stands for the chunk's sample    *)
(* bytes: the model gives every pushed chunk a distinct value (the tests'  *)
(* CreateTestChunk(sequence)), so that two chunks can be told apart.       *)
(***************************************************************************)
Chunk(data, start_ns, end_ns) ==
    [audio_data |-> data, start_timestamp_ns |-> start_ns, end_timestamp_ns |-> end_ns]

\* A default-constructed audio_chunk: what history_buffer.resize() fills the
\* slots with, start timestamp 0.
EmptyChunk == Chunk(0, 0, 0)

VARIABLES
    \* ---- AudioStreamContext
    lockfree_queue,         \* the SPSC queue, oldest first
    history_buffer,         \* [0..history_capacity-1 -> chunk]
    history_write_index,
    \* ---- the last API call of Spec: its name, argument and return value
    op, arg, ret,
    \* ---- history variables (not program state)
    n_pushed,               \* push_chunk calls made so far
    offered,                \* chunks passed to push_chunk since the last get_new_chunks
    pre,                    \* lockfree_queue and offered as the last call found them
    recorded,               \* every chunk get_new_chunks wrote to the history, in order
    \* ---- SpecConc: the consumer thread inside get_new_chunks
    c_pc, c_chunk, c_result,
    history_mutex,          \* "free", or "consumer" while the consumer holds the lock
    accepted,               \* history: chunks the queue accepted, in push order
    drained,                \* history: concatenation of all get_new_chunks results
    \* ---- SpecQuery: the thread inside a history query
    q_pc,                   \* "idle", "lock" (waiting for the mutex) or "scan"
    q_call,                 \* the query called last: its name and arguments, and
                            \* (history) how many chunks had been recorded then
    q_i,                    \* the loop index i
    q_result,               \* the local result, or the pair (oldest, newest)
    q_ret,                  \* what the last query returned
    \* ---- MP3EncoderState
    encoder_ctx,            \* NULL or the codec context
    frame,                  \* NULL or the reusable AVFrame
    buffer,                 \* accumulated interleaved samples
    sample_rate,
    num_channels,
    \* ---- the caller's output vector (number of packets appended to it)
    output_data,
    \* ---- the last encoder call: its name and how it ended
    enc_op, enc_ret,
    \* ---- history variables of the encoder
    enc_pre,                \* the encoder state and output as the last call found them
    enc_arg,                \* the samples the last encode call was given
                            \* (flush: whether its packet could be allocated)
    n_samples_in,           \* samples passed to encode so far
    sent_frames,            \* the frames submitted to the codec, in order
    session_start,          \* samples passed in and frames submitted before the
                            \* last successful initialize
    enc_warnings,           \* warnings the last encoder call logged
    enc_error,              \* what() of the exception the last call of encode
                            \* threw, "" when there is none
    \* ---- AudioStreamContext: the fields AudioCallback works on
    info,                   \* audio_info: sample_rate_hz, num_channels
    working_buffer,         \* samples_per_chunk * num_channels interleaved samples
    samples_per_chunk,
    current_sample_count,
    current_chunk_start_ns,
    stream_start_time,      \* wall-clock baseline, ns since the epoch
    first_callback_adc_time,\* device-clock baseline, ns
    first_callback_captured,
    is_recording,
    \* ---- the last step of SpecCb: its name, input and return value
    cb_op, cb_arg, cb_ret,
    \* ---- history variables of SpecCb
    cb_emitted,             \* the chunks the last callback built, each with the
                            \* delivery time and frame index of its first frame
    chunk_origin,           \* delivery time and frame index of the first frame
                            \* of the chunk being accumulated
    n_frames_in,            \* frames the callback has processed so far
    last_adc_time,          \* device clock of the latest delivery
    buffered_frames,        \* delivery time and frame index of every frame that
                            \* is in the working buffer
    cb_history,             \* "none": AudioCallback was never invoked; "skipped":
                            \* every invocation so far took the skip path;
                            \* "processed": some invocation processed its delivery
    \* ---- the session state setupStreamFromConfig works on
    device_name_,
    device_index_,
    sample_rate_,
    num_channels_,
    latency_,               \* microseconds
    audio_context_,         \* NULL or a pointer into contexts
    stream_,                \* NULL or a pointer into streams
    contexts,               \* the AudioStreamContext objects made so far
    streams,                \* the streams opened so far: state and user data
    \* ---- the last step of SpecSetup: its name, input and how it ended
    setup_op, setup_arg, setup_ret,
    setup_calls             \* history: calls of setupStreamFromConfig so far

stream_vars == <<lockfree_queue, history_buffer, history_write_index>>
call_vars == <<op, arg, ret, pre>>
query_vars == <<q_pc, q_call, q_i, q_result, q_ret>>
conc_vars == <<c_pc, c_chunk, c_result, history_mutex, accepted, drained, query_vars>>
cb_vars == <<info, working_buffer, samples_per_chunk, current_sample_count,
             current_chunk_start_ns, stream_start_time, first_callback_adc_time,
             first_callback_captured, is_recording, cb_op, cb_arg, cb_ret, cb_emitted,
             chunk_origin, n_frames_in, last_adc_time, buffered_frames, cb_history>>
ctx_vars == <<lockfree_queue, history_buffer, history_write_index, op, arg, ret,
              n_pushed, offered, pre, recorded, c_pc, c_chunk, c_result, history_mutex,
              accepted, drained, query_vars,
              cb_vars>>
enc_vars == <<encoder_ctx, frame, buffer, sample_rate, num_channels, output_data,
              enc_op, enc_ret, enc_pre, enc_arg, n_samples_in, sent_frames,
              session_start, enc_warnings, enc_error>>
session_vars == <<device_name_, device_index_, sample_rate_, num_channels_, latency_,
                  audio_context_, stream_>>
setup_vars == <<session_vars, contexts, streams, setup_op, setup_arg, setup_ret,
                setup_calls>>
vars == <<ctx_vars, enc_vars, setup_vars>>

(***************************************************************************)
(* AudioStreamContext::AudioStreamContext                                  *)
(***************************************************************************)
\* (variant: the history has a slot too many and the cursor starts at 1)
InitStream_extra_slot ==
    /\ lockfree_queue = <<>>
    /\ history_buffer = [i \in 0..HistCap |-> EmptyChunk]
    /\ history_write_index = 1

InitStream ==
    /\ lockfree_queue = <<>>
    /\ history_buffer = [i \in 0..(HistCap - 1) |-> EmptyChunk]
    /\ history_write_index = 0

InitHistoryVars ==
    /\ op = "construct"
    /\ arg = <<>>
    /\ ret = <<>>
    /\ n_pushed = 0
    /\ offered = <<>>
    /\ pre = [lockfree_queue |-> <<>>, offered |-> <<>>]
    /\ recorded = <<>>
    /\ c_pc = "idle"
    /\ c_chunk = EmptyChunk
    /\ c_result = <<>>
    /\ history_mutex = "free"
    /\ accepted = <<>>
    /\ drained = <<>>
    /\ q_pc = "idle"
    /\ q_call = [op |-> "none", arg |-> <<>>, recorded |-> 0]
    /\ q_i = 0
    /\ q_result = <<>>
    /\ q_ret = <<>>

(***************************************************************************)
(* A default-constructed MP3EncoderState: no codec context, no frame, an   *)
(* empty buffer, sample rate and channel count 0.                          *)
(***************************************************************************)
\* A smart pointer (CleanupPtr) is NULL or holds one object.
NULL == <<>>
Ptr(object) == <<object>>
Deref(pointer) == pointer[1]

EncoderState ==
    [encoder_ctx |-> encoder_ctx, frame |-> frame, buffer |-> buffer,
     sample_rate |-> sample_rate, num_channels |-> num_channels,
     output_data |-> output_data]

\* How a call ended ("ok", "runtime_error" thrown, "crash") and the value
\* it returned (0 for void).
Returned(status, value) == [status |-> status, value |-> value]

InitEnc ==
    /\ encoder_ctx = NULL
    /\ frame = NULL
    /\ buffer = <<>>
    /\ sample_rate = 0
    /\ num_channels = 0
    /\ output_data = 0
    /\ enc_op = "construct"
    /\ enc_ret = Returned("ok", 0)
    /\ enc_pre = [state |-> [encoder_ctx |-> NULL, frame |-> NULL, buffer |-> <<>>,
                              sample_rate |-> 0, num_channels |-> 0,
                              output_data |-> 0],
                  sent |-> 0]
    /\ enc_arg = <<>>
    /\ n_samples_in = 0
    /\ sent_frames = <<>>
    /\ session_start = [samples |-> 0, sent |-> 0]
    /\ enc_warnings = 0
    /\ enc_error = ""

(***************************************************************************)
(* The constructor's initialiser list for the fields AudioCallback works   *)
(* on; stream_start_time is default-constructed (the clock's epoch) and    *)
(* working_buffer.resize() fills the buffer with zeros.                    *)
(***************************************************************************)
\* The stream context's fields as one value.
StreamContext ==
    [info |-> info,
     lockfree_queue |-> lockfree_queue,
     history_buffer |-> history_buffer,
     history_write_index |-> history_write_index,
     working_buffer |-> working_buffer,
     samples_per_chunk |-> samples_per_chunk,
     current_sample_count |-> current_sample_count,
     current_chunk_start_ns |-> current_chunk_start_ns,
     stream_start_time |-> stream_start_time,
     first_callback_adc_time |-> first_callback_adc_time,
     first_callback_captured |-> first_callback_captured,
     is_recording |-> is_recording]

\* Where the chunk being accumulated began: the elapsed device time of the
\* delivery and the frame index its first frame had in it.
Origin(elapsed, index, rounding) ==
    [elapsed |-> elapsed, index |-> index, rounding |-> rounding]

InitCallback(audio_info, chunk_samples) ==
    /\ info = audio_info
    /\ samples_per_chunk = chunk_samples
    /\ working_buffer = [k \in 1..(chunk_samples * audio_info.num_channels) |-> 0]
    /\ current_sample_count = 0
    /\ current_chunk_start_ns = 0
    /\ stream_start_time = 0
    /\ first_callback_adc_time = 0
    /\ first_callback_captured = FALSE
    /\ is_recording = TRUE
    /\ cb_op = "construct"
    /\ cb_arg = <<>>
    /\ cb_ret = Returned("ok", 0)
    /\ cb_emitted = <<>>
    /\ chunk_origin = Origin(0, 0, 0)
    /\ n_frames_in = 0
    /\ last_adc_time = 0
    /\ buffered_frames = <<>>
    /\ cb_history = "none"

\* PortAudio's "no device" index.
paNoDevice == -1

\* The session before the first setupStreamFromConfig: no stream, no
\* context, nothing configured.
InitSetup ==
    /\ device_name_ = ""
    /\ device_index_ = paNoDevice
    /\ sample_rate_ = 0
    /\ num_channels_ = 0
    /\ latency_ = 0
    /\ audio_context_ = NULL
    /\ stream_ = NULL
    /\ contexts = <<>>
    /\ streams = <<>>
    /\ setup_op = "construct"
    /\ setup_arg = <<>>
    /\ setup_ret = Returned("ok", 0)
    /\ setup_calls = 0

Init ==
    /\ InitStream
    /\ InitHistoryVars
    /\ InitEnc
    /\ InitCallback(TestInfo, SamplesPerChunk)
    /\ InitSetup

(***************************************************************************)
(* push_chunk: lockfree_queue.push(std::move(chunk)). spsc_queue::push     *)
(* enqueues unless the queue is full, then it returns false and leaves the *)
(* queue alone; push_chunk discards that return value.                     *)
(***************************************************************************)
\* (variant: no capacity check, the queue grows)
push_chunk_unbounded(q, chunk) == Append(q, chunk)

\* (variant: a full queue overwrites its oldest element)
push_chunk_overwrite_oldest(q, chunk) ==
    IF Len(q) < QueueCap THEN Append(q, chunk) ELSE Append(Tail(q), chunk)

push_chunk(q, chunk) ==
    IF Len(q) < QueueCap THEN Append(q, chunk) ELSE q

(***************************************************************************)
(* One iteration of the while loop of get_new_chunks:                      *)
(*   history_buffer[history_write_index] = chunk;                          *)
(*   history_write_index = (history_write_index + 1) % history_capacity;   *)
(***************************************************************************)
\* (variant: every chunk is stored in slot 0)
history_store_slot_zero(hist, widx, chunk) == [hist EXCEPT ![0] = chunk]

history_store(hist, widx, chunk) == [hist EXCEPT ![widx] = chunk]

\* (variant: the cursor is never advanced)
history_advance_stuck(widx) == widx

history_advance(widx) == (widx + 1) % HistCap

\* (variant: newest first)
result_push_front(result, chunk) == <<chunk>> \o result

\* result.push_back(std::move(chunk))
result_push_back(result, chunk) == Append(result, chunk)

\* get_new_chunks: pop until the queue is empty, recording and collecting.
RECURSIVE get_new_chunks(_, _, _, _)
get_new_chunks(q, hist, widx, result) ==
    IF q = <<>>
    THEN [queue |-> q, history_buffer |-> hist, history_write_index |-> widx,
          result |-> result]
    ELSE LET chunk == Head(q)
         IN  get_new_chunks(Tail(q), history_store(hist, widx, chunk),
                            history_advance(widx), result_push_back(result, chunk))

(***************************************************************************)
(* get_chunks_from_timestamp: scan of all history_capacity slots from      *)
(* index i on, skipping start timestamp 0, keeping start in [start, end).  *)
(***************************************************************************)
\* (variant: closed interval)
in_requested_range_closed(chunk, start_timestamp_ns, end_timestamp_ns) ==
    /\ chunk.start_timestamp_ns >= start_timestamp_ns
    /\ chunk.start_timestamp_ns <= end_timestamp_ns

in_requested_range(chunk, start_timestamp_ns, end_timestamp_ns) ==
    /\ chunk.start_timestamp_ns >= start_timestamp_ns
    /\ chunk.start_timestamp_ns < end_timestamp_ns

\* (variant: no slot is taken for empty)
is_empty_slot_never(chunk) == FALSE

\* "Skip uninitialized chunks (timestamp == 0 means empty)", in both queries
is_empty_slot(chunk) == chunk.start_timestamp_ns = 0

RECURSIVE get_chunks_from_timestamp_scan(_, _, _, _)
get_chunks_from_timestamp_scan(hist, i, start_timestamp_ns, end_timestamp_ns) ==
    IF i >= HistCap THEN <<>>
    ELSE LET chunk == hist[i]
             rest == get_chunks_from_timestamp_scan(hist, i + 1, start_timestamp_ns,
                                                    end_timestamp_ns)
         IN  IF is_empty_slot(chunk) THEN rest
             ELSE IF in_requested_range(chunk, start_timestamp_ns, end_timestamp_ns)
                  THEN <<chunk>> \o rest
                  ELSE rest

get_chunks_from_timestamp(hist, start_timestamp_ns, end_timestamp_ns) ==
    get_chunks_from_timestamp_scan(hist, 0, start_timestamp_ns, end_timestamp_ns)

(***************************************************************************)
(* get_available_time_range: oldest = INT64_MAX, newest = 0, then min of   *)
(* the starts and max of the ends over the slots whose start is not 0;     *)
(* (0, 0) when oldest is still INT64_MAX.                                  *)
(***************************************************************************)
min(a, b) == IF b < a THEN b ELSE a
max(a, b) == IF a < b THEN b ELSE a

RECURSIVE get_available_time_range_scan(_, _, _, _)
get_available_time_range_scan(hist, i, oldest, newest) ==
    IF i >= HistCap THEN <<oldest, newest>>
    ELSE LET chunk == hist[i]
         IN  IF is_empty_slot(chunk)
             THEN get_available_time_range_scan(hist, i + 1, oldest, newest)
             ELSE get_available_time_range_scan(hist, i + 1,
                      min(oldest, chunk.start_timestamp_ns),
                      max(newest, chunk.end_timestamp_ns))

\* (variant: the "no data" case is not told apart)
get_available_time_range_no_data_check(hist) ==
    get_available_time_range_scan(hist, 0, INT64_MAX, 0)

get_available_time_range(hist) ==
    LET r == get_available_time_range_scan(hist, 0, INT64_MAX, 0)
    IN  IF r[1] = INT64_MAX THEN <<0, 0>> ELSE r

(***************************************************************************)
(* Spec: the API called from one thread.                                   *)
(***************************************************************************)
\* The chunks a caller may push: any start timestamp (0 included, as the
\* tests' CreateTestChunk(i) with its default start_ns = 0), end >= start.
NewChunk(start_ns) == Chunk(n_pushed + 1, start_ns, start_ns + ChunkDur)

Pre == [lockfree_queue |-> lockfree_queue, offered |-> offered]

PushChunk ==
    \E start_ns \in Timestamps :
        /\ n_pushed < MaxPushes
        /\ lockfree_queue' = push_chunk(lockfree_queue, NewChunk(start_ns))
        /\ n_pushed' = n_pushed + 1
        /\ op' = "push_chunk"
        /\ arg' = NewChunk(start_ns)
        /\ ret' = <<>>
        /\ pre' = Pre
        /\ offered' = Append(offered, NewChunk(start_ns))
        /\ UNCHANGED <<history_buffer, history_write_index, recorded>>
        /\ UNCHANGED conc_vars
        /\ UNCHANGED <<enc_vars, cb_vars, setup_vars>>

GetNewChunks ==
    LET r == get_new_chunks(lockfree_queue, history_buffer, history_write_index, <<>>)
    IN  /\ lockfree_queue' = r.queue
        /\ history_buffer' = r.history_buffer
        /\ history_write_index' = r.history_write_index
        /\ op' = "get_new_chunks"
        /\ arg' = <<>>
        /\ ret' = r.result
        /\ pre' = Pre
        /\ offered' = <<>>
        /\ recorded' = recorded \o r.result
        /\ UNCHANGED n_pushed
        /\ UNCHANGED conc_vars
        /\ UNCHANGED <<enc_vars, cb_vars, setup_vars>>

GetChunksFromTimestamp ==
    \E start_timestamp_ns \in QueryStarts, end_timestamp_ns \in QueryEnds :
        /\ op' = "get_chunks_from_timestamp"
        /\ arg' = <<start_timestamp_ns, end_timestamp_ns>>
        /\ ret' = get_chunks_from_timestamp(history_buffer, start_timestamp_ns,
                                            end_timestamp_ns)
        /\ pre' = Pre
        /\ UNCHANGED <<stream_vars, n_pushed, offered, recorded>>
        /\ UNCHANGED conc_vars
        /\ UNCHANGED <<enc_vars, cb_vars, setup_vars>>

GetAvailableTimeRange ==
    /\ op' = "get_available_time_range"
    /\ arg' = <<>>
    /\ ret' = get_available_time_range(history_buffer)
    /\ pre' = Pre
    /\ UNCHANGED <<stream_vars, n_pushed, offered, recorded>>
    /\ UNCHANGED conc_vars
    /\ UNCHANGED <<enc_vars, cb_vars, setup_vars>>

Next ==
    \/ PushChunk
    \/ GetNewChunks
    \/ GetChunksFromTimestamp
    \/ GetAvailableTimeRange

Spec == Init /\ [][Next]_vars

(***************************************************************************)
(* SpecConc: the producer thread calls push_chunk while the consumer       *)
(* thread is inside get_new_chunks. spsc_queue::push and spsc_queue::pop   *)
(* are each one atomic step for the single producer and single consumer;   *)
(* the consumer takes history_mutex in one step and runs the two           *)
(* statements under it and releases it in the next; result and chunk are   *)
(* locals of the consumer.                                                 *)
(***************************************************************************)
\* The producer's chunk: consecutive capture times.
ProducedChunk == Chunk(n_pushed + 1, n_pushed + 1, n_pushed + 1 + ChunkDur)

\* (variant: the producer takes history_mutex around the push)
producer_waits_for_history_mutex(mutex) == mutex /= "free"

\* push_chunk is lockfree_queue.push alone: it waits for no lock.
producer_waits_for(mutex) == FALSE

ProducerPush ==
    /\ n_pushed < MaxPushes
    /\ ~producer_waits_for(history_mutex)
    /\ lockfree_queue' = push_chunk(lockfree_queue, ProducedChunk)
    /\ n_pushed' = n_pushed + 1
    /\ accepted' = IF Len(lockfree_queue) < QueueCap
                   THEN Append(accepted, ProducedChunk) ELSE accepted
    /\ UNCHANGED <<history_buffer, history_write_index, recorded, offered>>
    /\ UNCHANGED <<c_pc, c_chunk, c_result, history_mutex, drained>>
    /\ UNCHANGED call_vars
    /\ UNCHANGED query_vars
    /\ UNCHANGED <<enc_vars, cb_vars, setup_vars>>

\* std::vector<audio_chunk> result; audio_chunk chunk;
ConsumerCall ==
    /\ c_pc = "idle"
    /\ c_pc' = "pop"
    /\ c_result' = <<>>
    /\ c_chunk' = EmptyChunk
    /\ UNCHANGED <<stream_vars, history_mutex, n_pushed, offered, recorded, accepted, drained>>
    /\ UNCHANGED call_vars
    /\ UNCHANGED query_vars
    /\ UNCHANGED <<enc_vars, cb_vars, setup_vars>>

\* while (lockfree_queue.pop(chunk)): an element is moved into chunk
ConsumerPop ==
    /\ c_pc = "pop"
    /\ lockfree_queue /= <<>>
    /\ c_chunk' = Head(lockfree_queue)
    /\ lockfree_queue' = Tail(lockfree_queue)
    /\ c_pc' = "lock"
    /\ UNCHANGED <<history_buffer, history_write_index, history_mutex, c_result>>
    /\ UNCHANGED <<n_pushed, offered, recorded, accepted, drained>>
    /\ UNCHANGED call_vars
    /\ UNCHANGED query_vars
    /\ UNCHANGED <<enc_vars, cb_vars, setup_vars>>

\* std::lock_guard<std::mutex> lock(history_mutex)
ConsumerLock ==
    /\ c_pc = "lock"
    /\ history_mutex = "free"
    /\ history_mutex' = "consumer"
    /\ c_pc' = "record"
    /\ UNCHANGED <<stream_vars, c_chunk, c_result>>
    /\ UNCHANGED <<n_pushed, offered, recorded, accepted, drained>>
    /\ UNCHANGED call_vars
    /\ UNCHANGED query_vars
    /\ UNCHANGED <<enc_vars, cb_vars, setup_vars>>

\* (variant: the lock is still held when the block is left)
ConsumerRecord_keeps_lock ==
    /\ c_pc = "record"
    /\ history_mutex = "consumer"
    /\ history_buffer' = history_store(history_buffer, history_write_index, c_chunk)
    /\ history_write_index' = history_advance(history_write_index)
    /\ recorded' = Append(recorded, c_chunk)
    /\ c_pc' = "push_back"
    /\ UNCHANGED <<lockfree_queue, c_chunk, c_result, history_mutex>>
    /\ UNCHANGED <<n_pushed, offered, accepted, drained>>
    /\ UNCHANGED call_vars
    /\ UNCHANGED query_vars
    /\ UNCHANGED <<enc_vars, cb_vars, setup_vars>>

\* the two statements under the lock, and the lock_guard's release
ConsumerRecord ==
    /\ c_pc = "record"
    /\ history_mutex = "consumer"
    /\ history_mutex' = "free"
    /\ history_buffer' = history_store(history_buffer, history_write_index, c_chunk)
    /\ history_write_index' = history_advance(history_write_index)
    /\ recorded' = Append(recorded, c_chunk)
    /\ c_pc' = "push_back"
    /\ UNCHANGED <<lockfree_queue, c_chunk, c_result>>
    /\ UNCHANGED <<n_pushed, offered, accepted, drained>>
    /\ UNCHANGED call_vars
    /\ UNCHANGED query_vars
    /\ UNCHANGED <<enc_vars, cb_vars, setup_vars>>

\* result.push_back(std::move(chunk))
ConsumerPushBack ==
    /\ c_pc = "push_back"
    /\ c_result' = result_push_back(c_result, c_chunk)
    /\ c_pc' = "pop"
    /\ UNCHANGED <<stream_vars, history_mutex, c_chunk>>
    /\ UNCHANGED <<n_pushed, offered, recorded, accepted, drained>>
    /\ UNCHANGED call_vars
    /\ UNCHANGED query_vars
    /\ UNCHANGED <<enc_vars, cb_vars, setup_vars>>

\* lockfree_queue.pop(chunk) finds the queue empty: return result
ConsumerReturn ==
    /\ c_pc = "pop"
    /\ lockfree_queue = <<>>
    /\ drained' = drained \o c_result
    /\ c_pc' = "idle"
    /\ UNCHANGED <<stream_vars, history_mutex, c_chunk, c_result>>
    /\ UNCHANGED <<n_pushed, offered, recorded, accepted>>
    /\ UNCHANGED call_vars
    /\ UNCHANGED query_vars
    /\ UNCHANGED <<enc_vars, cb_vars, setup_vars>>

NextConc ==
    \/ ProducerPush
    \/ ConsumerCall
    \/ ConsumerPop
    \/ ConsumerLock
    \/ ConsumerRecord
    \/ ConsumerPushBack
    \/ ConsumerReturn

SpecConc == Init /\ [][NextConc]_vars

\* The consumer thread: one call of get_new_chunks after the other.
Consumer ==
    \/ ConsumerCall
    \/ ConsumerPop
    \/ ConsumerLock
    \/ ConsumerRecord
    \/ ConsumerPushBack
    \/ ConsumerReturn

\* SpecConcLive: SpecConc with a consumer thread that keeps calling
\* get_new_chunks and is always scheduled again (it waits for nothing but
\* history_mutex, which no other thread of this specification takes). The
\* producer is under no obligation: it may stop pushing at any time, and
\* pushes at most MaxPushes times.
SpecConcLive == Init /\ [][NextConc]_vars /\ WF_vars(Consumer)

(***************************************************************************)
(* SpecQuery: SpecConc with a third thread that calls the two history      *)
(* queries. A query takes history_mutex on entry and holds it until it     *)
(* returns; in between it reads one slot of history_buffer per step.       *)
(***************************************************************************)
\* The queries the third thread calls.
Queries ==
    {[op |-> "get_chunks_from_timestamp", arg |-> <<0, INT64_MAX>>],
     [op |-> "get_chunks_from_timestamp", arg |-> <<2, 4>>],
     [op |-> "get_available_time_range", arg |-> <<>>]}

\* (variant: the query takes no lock)
query_waits_for_nothing(mutex) == FALSE

\* std::lock_guard<std::mutex> lock(history_mutex) blocks while the mutex
\* is held.
query_waits_for(mutex) == mutex /= "free"

\* The mutex once `thread` has constructed its lock_guard, and once the
\* lock_guard is destroyed.
locked_by(thread) == thread
unlocked_by(mutex, thread) == IF mutex = thread THEN "free" ELSE mutex

\* One iteration of the loop of get_chunks_from_timestamp.
get_chunks_from_timestamp_visit(result, chunk, start_timestamp_ns, end_timestamp_ns) ==
    IF is_empty_slot(chunk) THEN result
    ELSE IF in_requested_range(chunk, start_timestamp_ns, end_timestamp_ns)
         THEN Append(result, chunk)
         ELSE result

\* One iteration of the loop of get_available_time_range on (oldest, newest).
get_available_time_range_visit(range, chunk) ==
    IF is_empty_slot(chunk) THEN range
    ELSE <<min(range[1], chunk.start_timestamp_ns), max(range[2], chunk.end_timestamp_ns)>>

\* if (oldest == INT64_MAX) return {0, 0}; return {oldest, newest};
get_available_time_range_return(range) ==
    IF range[1] = INT64_MAX THEN <<0, 0>> ELSE range

QueryCall ==
    \E query \in Queries :
        /\ q_pc = "idle"
        /\ q_pc' = "lock"
        /\ q_call' = [op |-> query.op, arg |-> query.arg, recorded |-> Len(recorded)]
        /\ UNCHANGED <<q_i, q_result, q_ret>>
        /\ UNCHANGED <<stream_vars, c_pc, c_chunk, c_result, history_mutex>>
        /\ UNCHANGED <<n_pushed, offered, recorded, accepted, drained>>
        /\ UNCHANGED call_vars
        /\ UNCHANGED <<enc_vars, cb_vars, setup_vars>>

\* the lock_guard, then the declaration of the locals
QueryLock ==
    /\ q_pc = "lock"
    /\ ~query_waits_for(history_mutex)
    /\ history_mutex' = IF history_mutex = "free" THEN locked_by("query")
                        ELSE history_mutex
    /\ q_pc' = "scan"
    /\ q_i' = 0
    /\ q_result' = IF q_call.op = "get_available_time_range"
                   THEN <<INT64_MAX, 0>> ELSE <<>>
    /\ UNCHANGED <<q_call, q_ret>>
    /\ UNCHANGED <<stream_vars, c_pc, c_chunk, c_result>>
    /\ UNCHANGED <<n_pushed, offered, recorded, accepted, drained>>
    /\ UNCHANGED call_vars
    /\ UNCHANGED <<enc_vars, cb_vars, setup_vars>>

\* for (size_t i = 0; i < history_capacity; i++): one iteration
QueryScan ==
    /\ q_pc = "scan"
    /\ q_i < HistCap
    /\ q_result' = IF q_call.op = "get_available_time_range"
                   THEN get_available_time_range_visit(q_result, history_buffer[q_i])
                   ELSE get_chunks_from_timestamp_visit(q_result, history_buffer[q_i],
                                                        q_call.arg[1], q_call.arg[2])
    /\ q_i' = q_i + 1
    /\ UNCHANGED <<q_pc, q_call, q_ret>>
    /\ UNCHANGED <<stream_vars, c_pc, c_chunk, c_result, history_mutex>>
    /\ UNCHANGED <<n_pushed, offered, recorded, accepted, drained>>
    /\ UNCHANGED call_vars
    /\ UNCHANGED <<enc_vars, cb_vars, setup_vars>>

\* the loop is over: return, and the lock_guard releases the mutex
QueryReturn ==
    /\ q_pc = "scan"
    /\ q_i >= HistCap
    /\ q_ret' = IF q_call.op = "get_available_time_range"
                THEN get_available_time_range_return(q_result)
                ELSE q_result
    /\ history_mutex' = unlocked_by(history_mutex, "query")
    /\ q_pc' = "idle"
    /\ UNCHANGED <<q_call, q_i, q_result>>
    /\ UNCHANGED <<stream_vars, c_pc, c_chunk, c_result>>
    /\ UNCHANGED <<n_pushed, offered, recorded, accepted, drained>>
    /\ UNCHANGED call_vars
    /\ UNCHANGED <<enc_vars, cb_vars, setup_vars>>

NextQuery ==
    \/ ProducerPush
    \/ ConsumerCall
    \/ ConsumerPop
    \/ ConsumerLock
    \/ ConsumerRecord
    \/ ConsumerPushBack
    \/ ConsumerReturn
    \/ QueryCall
    \/ QueryLock
    \/ QueryScan
    \/ QueryReturn

SpecQuery == Init /\ [][NextQuery]_vars

(***************************************************************************)
(* Properties of the hand-off queue and the history ring buffer.           *)
(***************************************************************************)
Range(seq) == {seq[k] : k \in 1..Len(seq)}

NoDuplicates(seq) == \A j, k \in 1..Len(seq) : j /= k => seq[j] /= seq[k]

SetMin(S) == CHOOSE x \in S : \A y \in S : x <= y
SetMax(S) == CHOOSE x \in S : \A y \in S : y <= x

Slots == 0..(HistCap - 1)

\* The last history_capacity chunks recorded (all of them when fewer).
LastRecorded ==
    LET n == Len(recorded)
    IN  IF n <= HistCap THEN recorded ELSE SubSeq(recorded, n - HistCap + 1, n)

\* C1: N <= capacity pushes onto an empty queue followed by one drain: the
\* drain returns exactly those N chunks in push order and leaves the queue
\* empty; a drain with no push since the previous drain (N = 0) returns the
\* empty sequence.
C1_DrainReturnsPushesInOrder ==
    (op = "get_new_chunks" /\ Len(pre.offered) <= QueueCap)
        => (ret = pre.offered /\ lockfree_queue = <<>>)

C1_Witness ==
    /\ op = "get_new_chunks"
    /\ Len(pre.offered) = QueueCap
    /\ ret = pre.offered

\* C2: push_chunk on a queue that holds capacity chunks leaves the queue
\* as it was and returns nothing to the producer; a drain after more than
\* capacity pushes returns exactly the first capacity chunks pushed, in push
\* order.
C2_FullQueueDropsPush ==
    /\ (op = "push_chunk" /\ Len(pre.lockfree_queue) = QueueCap)
           => (lockfree_queue = pre.lockfree_queue /\ ret = <<>>)
    /\ (op = "get_new_chunks" /\ Len(pre.offered) > QueueCap)
           => (ret = SubSeq(pre.offered, 1, QueueCap) /\ Len(ret) <= QueueCap)

C2_Witness ==
    /\ op = "get_new_chunks"
    /\ Len(pre.offered) > QueueCap
    /\ Len(ret) = QueueCap

\* C3: one producer, one consumer, any interleaving: the chunks already
\* returned by drains, then the chunks the running drain has collected, then
\* the chunk it has popped and not yet collected, then the queue's contents,
\* are together exactly the accepted chunks in push order; so no accepted
\* chunk is lost, none is returned twice, and the drain results concatenated
\* keep push order.
ConsumerHolds ==
    (IF c_pc = "idle" THEN <<>> ELSE c_result)
        \o (IF c_pc \in {"lock", "record", "push_back"} THEN <<c_chunk>> ELSE <<>>)

C3_NoLossNoDuplicateInOrder ==
    /\ drained \o ConsumerHolds \o lockfree_queue = accepted
    /\ NoDuplicates(drained)

C3_Witness ==
    /\ n_pushed = MaxPushes
    /\ Len(accepted) < n_pushed
    /\ Len(accepted) >= QueueCap
    /\ drained = accepted
    /\ c_pc = "idle"

\* C4 (as stated): a query over the whole time range returns exactly the
\* last history_capacity recorded chunks (all of them when fewer).
C4_WholeRangeReturnsLastRecorded ==
    (op = "get_chunks_from_timestamp" /\ arg = <<0, INT64_MAX>>)
        => (Range(ret) = Range(LastRecorded) /\ Len(ret) = Len(LastRecorded))

\* C4 (amended): a query over the whole time range returns exactly those of
\* the last history_capacity recorded chunks whose start timestamp is not 0,
\* each once, and none of the older ones.
C4_WholeRangeReturnsLastRecordedNonZero ==
    (op = "get_chunks_from_timestamp" /\ arg = <<0, INT64_MAX>>)
        => LET kept == {c \in Range(LastRecorded) : c.start_timestamp_ns /= 0}
           IN  Range(ret) = kept /\ Len(ret) = Cardinality(kept)

C4_Witness ==
    /\ op = "get_chunks_from_timestamp"
    /\ arg = <<0, INT64_MAX>>
    /\ Len(recorded) > HistCap
    /\ Len(ret) = HistCap

\* C5: get_chunks_from_timestamp(startNs, endNs) returns exactly the chunks
\* of the non-empty slots whose start timestamp t has startNs <= t < endNs,
\* each once.
C5_QueryReturnsHalfOpenRange ==
    op = "get_chunks_from_timestamp"
        => LET wanted == {history_buffer[i] : i \in
                            {j \in Slots :
                                /\ history_buffer[j].start_timestamp_ns /= 0
                                /\ arg[1] <= history_buffer[j].start_timestamp_ns
                                /\ history_buffer[j].start_timestamp_ns < arg[2]}}
           IN  Range(ret) = wanted /\ NoDuplicates(ret)

C5_Witness ==
    /\ op = "get_chunks_from_timestamp"
    /\ \E i, j \in Slots :
          /\ history_buffer[i].start_timestamp_ns = arg[1]
          /\ history_buffer[j].start_timestamp_ns = arg[2]
          /\ ret = <<history_buffer[i]>>

\* C6: get_available_time_range returns (minimum start, maximum end) over
\* the non-empty slots, and (0, 0) when every slot is empty.
NonEmptySlots == {i \in Slots : history_buffer[i].start_timestamp_ns /= 0}

C6_AvailableRangeIsMinStartMaxEnd ==
    op = "get_available_time_range"
        => IF NonEmptySlots = {}
           THEN ret = <<0, 0>>
           ELSE ret = <<SetMin({history_buffer[i].start_timestamp_ns : i \in NonEmptySlots}),
                        SetMax({history_buffer[i].end_timestamp_ns : i \in NonEmptySlots})>>

C6_Witness ==
    /\ op = "get_available_time_range"
    /\ Cardinality(NonEmptySlots) >= 2
    /\ \E i, j \in NonEmptySlots :
          /\ i < j
          /\ history_buffer[j].start_timestamp_ns < history_buffer[i].start_timestamp_ns
          /\ ret = <<history_buffer[j].start_timestamp_ns, history_buffer[i].end_timestamp_ns>>

\* C7: a chunk with start timestamp 0 that a drain has recorded is never
\* returned by get_chunks_from_timestamp, whatever the range asked, and the
\* available time range is the one of the other recorded chunks alone.
RecordedZeroSlots ==
    {i \in Slots : history_buffer[i] /= EmptyChunk
                     /\ history_buffer[i].start_timestamp_ns = 0}

C7_ZeroStartChunkIsInvisible ==
    RecordedZeroSlots /= {}
        => /\ op = "get_chunks_from_timestamp"
                => \A i \in RecordedZeroSlots : history_buffer[i] \notin Range(ret)
           /\ op = "get_available_time_range"
                => LET others == Slots \ RecordedZeroSlots
                       live == {i \in others : history_buffer[i] /= EmptyChunk}
                   IN  IF live = {}
                       THEN ret = <<0, 0>>
                       ELSE /\ ret[1] = SetMin({history_buffer[i].start_timestamp_ns : i \in live})
                            /\ ret[2] = SetMax({history_buffer[i].end_timestamp_ns : i \in live})

C7_Witness ==
    /\ RecordedZeroSlots /= {}
    /\ op = "get_chunks_from_timestamp"
    /\ arg = <<0, INT64_MAX>>
    /\ Len(ret) = HistCap - 1

(***************************************************************************)
(* The MP3 encoder (mp3_encoder.cpp). The codec library is the encoder's   *)
(* environment: a context is opened or not, has been sent the end-of-      *)
(* stream signal or not, and holds `pending` frames it has accepted and    *)
(* not yet emitted as packets. What the library may answer at each call is *)
(* a nondeterministic choice of the action (env).                          *)
(***************************************************************************)
\* avcodec_alloc_context3: a context, not yet opened
AllocatedContext == [opened |-> FALSE, eof |-> FALSE, pending |-> 0]
\* after avcodec_open2 succeeded
OpenedContext == [opened |-> TRUE, eof |-> FALSE, pending |-> 0]
\* av_frame_alloc: a frame with no data buffer
AllocatedFrame == [has_buffer |-> FALSE, data |-> <<>>]
\* after av_frame_get_buffer succeeded
FrameWithBuffer == [has_buffer |-> TRUE, data |-> <<>>]

\* How initialize_mp3_encoder can end: normally, or at one of its five throws.
InitOutcomes ==
    {"ok", "encoder_not_found", "context_alloc_failed", "open_failed",
     "frame_alloc_failed", "frame_buffer_failed"}

\* (variant: a successful initialize keeps the samples buffered before it)
initialize_mp3_encoder_keep_buffer(st, rate, channels, outcome) ==
    IF outcome = "ok"
    THEN [st EXCEPT !.encoder_ctx = Ptr(OpenedContext), !.frame = Ptr(FrameWithBuffer),
                    !.sample_rate = rate, !.num_channels = channels]
    ELSE st

initialize_mp3_encoder(st, rate, channels, outcome) ==
    IF outcome \in {"encoder_not_found", "context_alloc_failed"}
    THEN st
    ELSE IF outcome = "open_failed"
    THEN [st EXCEPT !.encoder_ctx = Ptr(AllocatedContext)]
    ELSE IF outcome = "frame_alloc_failed"
    THEN [st EXCEPT !.encoder_ctx = Ptr(OpenedContext)]
    ELSE IF outcome = "frame_buffer_failed"
    THEN [st EXCEPT !.encoder_ctx = Ptr(OpenedContext), !.frame = Ptr(AllocatedFrame)]
    ELSE [st EXCEPT !.encoder_ctx = Ptr(OpenedContext), !.frame = Ptr(FrameWithBuffer),
                    !.sample_rate = rate, !.num_channels = channels,
                    !.buffer = <<>>]

\* (variant: the input is read as if it were already planar)
deinterleave_samples_planar(interleaved, frame_size, channels) ==
    [ch \in 0..(channels - 1) |->
        [i \in 0..(frame_size - 1) |-> interleaved[ch * frame_size + i + 1]]]

\* deinterleave_samples: plane[ch][i] = interleaved[i * num_channels + ch]
\* (sequences are 1-based, planes and indices 0-based as in the source).
deinterleave_samples(interleaved, frame_size, channels) ==
    [ch \in 0..(channels - 1) |->
        [i \in 0..(frame_size - 1) |-> interleaved[i * channels + ch + 1]]]

\* (variant: a frame is taken to be one sample longer)
samples_per_frame_plus_one(st) == FrameSize * st.num_channels + 1

\* samples_per_frame = encoder_ctx->frame_size * num_channels
samples_per_frame(st) == FrameSize * st.num_channels

\* (variant: a buffer holding exactly one frame is not encoded)
has_complete_frame_strict(st) == Len(st.buffer) > samples_per_frame(st)

\* while (state.buffer.size() >= samples_per_frame)
has_complete_frame(st) == Len(st.buffer) >= samples_per_frame(st)

\* avcodec_send_frame(ctx, frame) >= 0: the context must be open and not
\* draining, the frame must carry data.
send_frame_accepted(ctx, fr) == ctx.opened /\ ~ctx.eof /\ fr.has_buffer

\* (variant: one sample too few is erased)
erase_frame_short(buf, n) == SubSeq(buf, n, Len(buf))

\* state.buffer.erase(begin, begin + samples_per_frame)
erase_frame(buf, n) == SubSeq(buf, n + 1, Len(buf))

\* Packets avcodec_receive_packet hands out before it answers EAGAIN.
packets_ready(ctx, lookahead) ==
    IF ctx.pending > lookahead THEN ctx.pending - lookahead ELSE 0

\* avcodec_receive_packet answers a negative value other than EAGAIN and
\* EOF at the first poll of iteration k.
receive_packet_fails(env, k) == env.fail = "receive_packet" /\ env.at = k

\* (variant: an error answer to the poll for output is thrown)
receive_error_thrown(now, rest) ==
    [now EXCEPT !.status = "runtime_error", !.what = "MP3 encoder error"]

\* if (ret != AVERROR(EAGAIN) && ret != AVERROR_EOF): a warning is logged,
\* the packet is freed and the loop goes on (`rest`: the remaining
\* iterations, `now`: the call as it stands after the failed poll).
receive_error_logged(now, rest) == [rest EXCEPT !.warnings = @ + 1]

\* The while loop of encode_mp3_samples, from its k-th iteration on.
\* env.fail/env.at: the library call that fails and the iteration it fails
\* in; env.lookahead: the frames the codec holds back.
RECURSIVE encode_frames(_, _, _, _)
encode_frames(st, sent, k, env) ==
    IF ~has_complete_frame(st)
    THEN [state |-> st, sent |-> sent, status |-> "ok", warnings |-> 0, what |-> ""]
    ELSE IF st.num_channels > 0 /\ ~Deref(st.frame).has_buffer
    THEN \* deinterleave_samples writes through frame->data[ch] == NULL
         [state |-> st, sent |-> sent, status |-> "crash", warnings |-> 0, what |-> ""]
    ELSE LET fr == [Deref(st.frame) EXCEPT
                       !.data = deinterleave_samples(st.buffer, FrameSize, st.num_channels)]
             st1 == [st EXCEPT !.frame = Ptr(fr)]
         IN  IF ~send_frame_accepted(Deref(st1.encoder_ctx), fr)
                    \/ (env.fail = "send_frame" /\ env.at = k)
             THEN [state |-> st1, sent |-> sent, status |-> "runtime_error",
                   warnings |-> 0, what |-> "Error sending frame to MP3 encoder"]
             ELSE LET st2 == [st1 EXCEPT
                                 !.encoder_ctx[1].pending = @ + 1,
                                 !.buffer = erase_frame(@, samples_per_frame(st))]
                      sent2 == Append(sent, fr.data)
                  IN  IF env.fail = "packet_alloc" /\ env.at = k
                      THEN [state |-> st2, sent |-> sent2, status |-> "runtime_error",
                            warnings |-> 0, what |-> "Could not allocate packet"]
                      ELSE IF receive_packet_fails(env, k)
                      THEN receive_error_logged(
                               [state |-> st2, sent |-> sent2, status |-> "ok",
                                warnings |-> 0, what |-> ""],
                               encode_frames(st2, sent2, k + 1, env))
                      ELSE LET n == packets_ready(Deref(st2.encoder_ctx), env.lookahead)
                               st3 == [st2 EXCEPT !.encoder_ctx[1].pending = @ - n,
                                                  !.output_data = @ + n]
                           IN  encode_frames(st3, sent2, k + 1, env)

\* if (!state.encoder_ctx || !state.frame)
encoder_not_initialized(st) == st.encoder_ctx = NULL \/ st.frame = NULL

\* (variant: the samples are buffered before the state is checked)
encode_mp3_samples_insert_first(st, samples, sent, env) ==
    IF encoder_not_initialized(st)
    THEN [state |-> [st EXCEPT !.buffer = @ \o samples], sent |-> sent,
          status |-> "runtime_error", warnings |-> 0,
          what |-> "MP3 encoder not initialized"]
    ELSE encode_frames([st EXCEPT !.buffer = @ \o samples], sent, 1, env)

encode_mp3_samples(st, samples, sent, env) ==
    IF encoder_not_initialized(st)
    THEN [state |-> st, sent |-> sent, status |-> "runtime_error", warnings |-> 0,
          what |-> "MP3 encoder not initialized"]
    ELSE encode_frames([st EXCEPT !.buffer = @ \o samples], sent, 1, env)

\* (variant: no end-of-stream signal is submitted before draining)
flush_mp3_encoder_no_eos(st, packet_alloc_ok) ==
    IF st.encoder_ctx = NULL \/ ~packet_alloc_ok
    THEN [state |-> st, flushed_packets |-> 0]
    ELSE [state |-> [st EXCEPT !.encoder_ctx[1].pending = 0],
          flushed_packets |-> Deref(st.encoder_ctx).pending]

\* flush_mp3_encoder: the NULL frame puts an open context into draining
\* mode; every pending frame then comes out as one packet.
flush_mp3_encoder(st, packet_alloc_ok) ==
    IF st.encoder_ctx = NULL
    THEN [state |-> st, flushed_packets |-> 0]
    ELSE LET ctx == IF Deref(st.encoder_ctx).opened
                    THEN [Deref(st.encoder_ctx) EXCEPT !.eof = TRUE]
                    ELSE Deref(st.encoder_ctx)
         IN  IF ~packet_alloc_ok
             THEN [state |-> [st EXCEPT !.encoder_ctx = Ptr(ctx)], flushed_packets |-> 0]
             ELSE [state |-> [st EXCEPT !.encoder_ctx = Ptr([ctx EXCEPT !.pending = 0])],
                   flushed_packets |-> ctx.pending]

\* (variant: the accumulation buffer survives the cleanup)
cleanup_mp3_encoder_keep_buffer(st) ==
    [st EXCEPT !.frame = NULL, !.encoder_ctx = NULL,
               !.sample_rate = 0, !.num_channels = 0]

cleanup_mp3_encoder(st) ==
    [st EXCEPT !.frame = NULL, !.encoder_ctx = NULL, !.buffer = <<>>,
               !.sample_rate = 0, !.num_channels = 0]

(***************************************************************************)
(* SpecEnc: the encoder API called by its one owning thread.               *)
(***************************************************************************)
SetEncoderState(st) ==
    /\ encoder_ctx' = st.encoder_ctx
    /\ frame' = st.frame
    /\ buffer' = st.buffer
    /\ sample_rate' = st.sample_rate
    /\ num_channels' = st.num_channels
    /\ output_data' = st.output_data

EncPre == [state |-> EncoderState, sent |-> Len(sent_frames)]

\* A call that crashed the process is the last one.
Alive == enc_ret.status /= "crash"

InitializeMp3Encoder ==
    \E rate \in SampleRates, channels \in ChannelCounts, outcome \in InitOutcomes :
        /\ Alive
        /\ SetEncoderState(initialize_mp3_encoder(EncoderState, rate, channels, outcome))
        /\ enc_op' = "initialize"
        /\ enc_ret' = Returned(IF outcome = "ok" THEN "ok" ELSE "runtime_error", 0)
        /\ enc_pre' = EncPre
        /\ enc_arg' = <<rate, channels>>
        /\ session_start' = IF outcome = "ok"
                            THEN [samples |-> n_samples_in, sent |-> Len(sent_frames)]
                            ELSE session_start
        /\ enc_warnings' = 0
        /\ enc_error' = ""
        /\ UNCHANGED <<n_samples_in, sent_frames>>
        /\ UNCHANGED <<ctx_vars, setup_vars>>

EncodeEnvs ==
    [fail : {"none"}, at : {0}, lookahead : 0..MaxLookahead]
        \cup [fail : {"send_frame", "packet_alloc", "receive_packet"}, at : 1..2,
              lookahead : 0..MaxLookahead]

EncodeMp3Samples ==
    \E sample_count \in 0..(MaxSamples - n_samples_in), env \in EncodeEnvs :
        LET samples == [k \in 1..sample_count |-> n_samples_in + k]
            r == encode_mp3_samples(EncoderState, samples, sent_frames, env)
        IN  /\ Alive
            /\ SetEncoderState(r.state)
            /\ sent_frames' = r.sent
            /\ enc_op' = "encode"
            /\ enc_ret' = Returned(r.status, 0)
            /\ enc_pre' = EncPre
            /\ enc_arg' = samples
            /\ n_samples_in' = n_samples_in + sample_count
            /\ enc_warnings' = r.warnings
            /\ enc_error' = r.what
            /\ UNCHANGED session_start
            /\ UNCHANGED <<ctx_vars, setup_vars>>

FlushMp3Encoder ==
    \E packet_alloc_ok \in BOOLEAN :
        LET r == flush_mp3_encoder(EncoderState, packet_alloc_ok)
        IN  /\ Alive
            /\ SetEncoderState(r.state)
            /\ enc_op' = "flush"
            /\ enc_ret' = Returned("ok", r.flushed_packets)
            /\ enc_pre' = EncPre
            /\ enc_arg' = <<packet_alloc_ok>>
            /\ enc_warnings' = 0
            /\ enc_error' = ""
            /\ UNCHANGED <<n_samples_in, sent_frames, session_start>>
            /\ UNCHANGED <<ctx_vars, setup_vars>>

CleanupMp3Encoder ==
    /\ Alive
    /\ SetEncoderState(cleanup_mp3_encoder(EncoderState))
    /\ enc_op' = "cleanup"
    /\ enc_ret' = Returned("ok", 0)
    /\ enc_pre' = EncPre
    /\ enc_arg' = <<>>
    /\ enc_warnings' = 0
    /\ enc_error' = ""
    /\ UNCHANGED <<n_samples_in, sent_frames, session_start>>
    /\ UNCHANGED <<ctx_vars, setup_vars>>

NextEnc ==
    \/ InitializeMp3Encoder
    \/ EncodeMp3Samples
    \/ FlushMp3Encoder
    \/ CleanupMp3Encoder

SpecEnc == Init /\ [][NextEnc]_vars

(***************************************************************************)
(* Properties of the encoder.                                              *)
(***************************************************************************)
\* Ready: a codec session and a frame buffer are both attached.
Ready(st) == st.encoder_ctx /= NULL /\ st.frame /= NULL

\* One frame's worth of samples as the last call found the state.
PreFrameSamples == FrameSize * enc_pre.state.num_channels

\* C8: encode on a state that is not Ready (no codec session or no frame)
\* throws runtime_error and changes neither the encoder state nor the
\* caller's output; nothing is buffered and nothing is submitted.
C8_EncodeNotReadyThrowsAndChangesNothing ==
    (enc_op = "encode" /\ ~Ready(enc_pre.state))
        => /\ enc_ret.status = "runtime_error"
           /\ EncoderState = enc_pre.state
           /\ Len(sent_frames) = enc_pre.sent

C8_Witness ==
    /\ enc_op = "encode"
    /\ enc_pre.state.encoder_ctx = NULL
    /\ sent_frames /= <<>>
    /\ Len(enc_arg) >= FrameSize

\* C9: after every encode call that returns normally the accumulation
\* buffer holds fewer samples than one frame (frame size x channel count).
C9_BufferBelowOneFrameAfterEncode ==
    (enc_op = "encode" /\ enc_ret.status = "ok")
        => Len(buffer) < FrameSize * num_channels

C9_Witness ==
    /\ enc_op = "encode"
    /\ enc_ret.status = "ok"
    /\ Len(enc_pre.state.buffer) >= PreFrameSamples
    /\ Len(sent_frames) >= enc_pre.sent + 2
    /\ enc_arg /= <<>>

\* C10 (as stated): in Ready state with b samples buffered, encode with n
\* samples and b + n below one frame submits nothing, appends nothing to the
\* output and leaves the buffer holding the b samples followed by the n new
\* ones; exactly one frame's worth fed into an empty buffer leaves the
\* buffer empty.
EncodeInReady == enc_op = "encode" /\ Ready(enc_pre.state)

BelowOneFrame ==
    Len(enc_pre.state.buffer) + Len(enc_arg) < PreFrameSamples

ExactlyOneFrameIntoEmpty ==
    /\ enc_pre.state.buffer = <<>>
    /\ PreFrameSamples > 0
    /\ Len(enc_arg) = PreFrameSamples

BuffersWithoutEncoding ==
    /\ enc_ret.status = "ok"
    /\ Len(sent_frames) = enc_pre.sent
    /\ output_data = enc_pre.state.output_data
    /\ buffer = enc_pre.state.buffer \o enc_arg

C10_SubFrameBuffersAndExactFrameEmpties ==
    EncodeInReady
        => /\ BelowOneFrame => BuffersWithoutEncoding
           /\ ExactlyOneFrameIntoEmpty => buffer = <<>>

\* C10 (amended): as above, except that exactly one frame's worth fed into
\* an empty buffer leaves the buffer empty when the call returns normally
\* (the frame is then the one submitted); when avcodec_send_frame rejects
\* the frame the call throws and the samples stay in the buffer.
C10_SubFrameBuffersAndAcceptedFrameEmpties ==
    EncodeInReady
        => /\ BelowOneFrame => BuffersWithoutEncoding
           /\ (ExactlyOneFrameIntoEmpty /\ enc_ret.status = "ok")
                 => (buffer = <<>> /\ Len(sent_frames) = enc_pre.sent + 1)
           /\ (ExactlyOneFrameIntoEmpty /\ enc_ret.status = "runtime_error"
                                        /\ Len(sent_frames) = enc_pre.sent)
                 => buffer = enc_arg

C10_Witness ==
    /\ EncodeInReady
    /\ ExactlyOneFrameIntoEmpty
    /\ enc_ret.status = "ok"
    /\ buffer = <<>>
    /\ \E k \in 1..Len(sent_frames) : sent_frames[k][0][0] = enc_arg[1]

\* C11 (as stated): flush discards the samples left in the accumulation
\* buffer: after flush_mp3_encoder returns on a state with a codec session
\* the accumulation buffer is empty.
C11_FlushEmptiesBuffer ==
    (enc_op = "flush" /\ enc_pre.state.encoder_ctx /= NULL) => buffer = <<>>

\* What flush found in the codec: the frames accepted and not yet emitted.
PrePending == Deref(enc_pre.state.encoder_ctx).pending

FlushOnNoSession ==
    (enc_op = "flush" /\ enc_pre.state.encoder_ctx = NULL)
        => (enc_ret = Returned("ok", 0) /\ EncoderState = enc_pre.state)

FlushSignalsEndOfStream ==
    (enc_op = "flush" /\ enc_pre.state.encoder_ctx /= NULL)
        => /\ encoder_ctx /= NULL
           /\ Deref(encoder_ctx).opened => Deref(encoder_ctx).eof
           /\ enc_ret.status = "ok"
           /\ enc_ret.value >= 0

Uninitialized(st) ==
    /\ st.encoder_ctx = NULL
    /\ st.frame = NULL
    /\ st.buffer = <<>>
    /\ st.sample_rate = 0
    /\ st.num_channels = 0

\* C13: cleanup returns the encoder state to the Uninitialized baseline
\* from any state and raises no error; on a state that already is the
\* baseline (a second cleanup, a never-initialized state) it changes nothing.
C13_CleanupReachesBaselineAndIsIdempotent ==
    enc_op = "cleanup"
        => /\ Uninitialized(EncoderState)
           /\ enc_ret.status = "ok"
           /\ Uninitialized(enc_pre.state) => EncoderState = enc_pre.state

C13_Witness ==
    /\ enc_op = "cleanup"
    /\ Ready(enc_pre.state)
    /\ enc_pre.state.buffer /= <<>>
    /\ Deref(enc_pre.state.encoder_ctx).pending > 0

\* C14 (as stated): an initialize that fails raises an error and leaves an
\* Uninitialized encoder state Uninitialized: no codec session and no frame
\* buffer are attached to it.
C14_FailedInitializeLeavesUninitialized ==
    (enc_op = "initialize" /\ Uninitialized(enc_pre.state)
                           /\ enc_ret.status /= "ok")
        => /\ enc_ret.status = "runtime_error"
           /\ encoder_ctx = NULL
           /\ frame = NULL

\* C15: after an initialize that succeeds the state is Ready, records the
\* sample rate and channel count it was given and has an empty accumulation
\* buffer, whatever it held before.
C15_InitializeMakesReady ==
    (enc_op = "initialize" /\ enc_ret.status = "ok")
        => /\ Ready(EncoderState)
           /\ Deref(encoder_ctx).opened
           /\ Deref(frame).has_buffer
           /\ sample_rate = enc_arg[1]
           /\ num_channels = enc_arg[2]
           /\ buffer = <<>>

C15_Witness ==
    /\ enc_op = "initialize"
    /\ enc_ret.status = "ok"
    /\ Ready(enc_pre.state)
    /\ enc_pre.state.buffer /= <<>>
    /\ enc_pre.state.num_channels /= enc_arg[2]
    /\ num_channels = enc_arg[2]

(***************************************************************************)
(* AudioCallback and calculate_sample_timestamp (audio_stream.cpp). Times  *)
(* are integers in nanoseconds. The source computes them as double seconds *)
(* and converts with duration_cast<nanoseconds>, which truncates; where    *)
(* the double arithmetic is not exact the truncation can fall one          *)
(* nanosecond short, which the model takes as a choice of the environment  *)
(* (rounding).                                                             *)
(***************************************************************************)
\* vsdk::AudioIn::audio_chunk as the callback fills it in.
audio_chunk(audio_data, chunk_info, start_ns, end_ns) ==
    [audio_data |-> audio_data, info |-> chunk_info,
     start_timestamp_ns |-> start_ns, end_timestamp_ns |-> end_ns]

\* num / den seconds in whole nanoseconds, truncated (num, den >= 0, den > 0).
\* Computed without a product above 2^31.
seconds_to_ns(num, den) ==
    (num \div den) * NsPerSec + (num % den) * (NsPerSec \div den)
        + ((num % den) * (NsPerSec % den)) \div den

\* num / den seconds is a whole number of nanoseconds.
whole_ns(num, den) == ((num % den) * (NsPerSec % den)) % den = 0

\* A time of k / 2^9 seconds is exact both as double seconds and in
\* nanoseconds (10^9 = 2^9 * 5^9).
fp_dyadic(ns) == ns % (NsPerSec \div (2 ^ 9)) = 0

\* What truncating the double can add to the exact whole nanoseconds of
\* elapsed + index / rate seconds: nothing when every operand is exact or
\* when the exact value is not a whole number of nanoseconds (the double's
\* error is far below one sample period); 0 or -1 when it is whole and the
\* double may lie just below it.
fp_rounding(elapsed, index, rate) ==
    IF fp_dyadic(elapsed) /\ (index = 0 \/ (2 ^ 9) % rate = 0)
    THEN {0}
    ELSE IF whole_ns(index, rate) THEN {-1, 0} ELSE {0}

\* (variant: the elapsed device time of the delivery is left out)
calculate_sample_timestamp_no_elapsed(ctx, seconds_since_stream_start, sample_index, rounding) ==
    ctx.stream_start_time + seconds_to_ns(sample_index, ctx.info.sample_rate_hz)
        + rounding

\* stream_start_time + duration_cast<ns>(seconds_since_stream_start
\*                                       + sample_index * (1.0 / sample_rate_hz))
calculate_sample_timestamp(ctx, seconds_since_stream_start, sample_index, rounding) ==
    LET sample_elapsed_duration ==
            seconds_since_stream_start
                + seconds_to_ns(sample_index, ctx.info.sample_rate_hz) + rounding
    IN  ctx.stream_start_time + sample_elapsed_duration

\* duration_cast<ns>(duration<double>(samples_per_chunk / double(sample_rate_hz)))
chunk_duration_ns(samples, rate, rounding) ==
    seconds_to_ns(samples, rate) + rounding

\* (variant: only a null input buffer is skipped)
callback_skips_null_only(inputBuffer, recording) == inputBuffer = NULL

\* if (inputBuffer == nullptr || !ctx->is_recording.load(relaxed))
callback_skips(inputBuffer, recording) == inputBuffer = NULL \/ ~recording

\* (variant: the anchor is taken at every delivery)
anchor_needed_always(captured) == TRUE

\* if (!ctx->first_callback_captured.load(relaxed))
anchor_needed(captured) == ~captured

\* (variant: the flag is set but the baselines are not written)
capture_anchor_flag_only(ctx, inputBufferAdcTime, now) ==
    [ctx EXCEPT !.first_callback_captured = TRUE]

capture_anchor(ctx, inputBufferAdcTime, now) ==
    IF anchor_needed(ctx.first_callback_captured)
    THEN [ctx EXCEPT !.first_callback_adc_time = inputBufferAdcTime,
                     !.stream_start_time = now,
                     !.first_callback_captured = TRUE]
    ELSE ctx

\* (variant: every frame restarts the chunk's start timestamp)
starts_new_chunk_every_frame(buffer_idx) == TRUE

\* if (buffer_idx == 0)
starts_new_chunk(buffer_idx) == buffer_idx = 0

\* (variant: the channels of a frame are stored in reverse order)
copy_frame_channels_reversed(buf, buffer_idx, input, i, channels) ==
    [k \in DOMAIN buf |->
        IF (k - 1) \div channels = buffer_idx
        THEN input[i * channels + (channels - 1 - ((k - 1) % channels)) + 1]
        ELSE buf[k]]

\* dst_frame[ch] = src_frame[ch] for every channel of frame i
copy_frame(buf, buffer_idx, input, i, channels) ==
    [k \in DOMAIN buf |->
        IF (k - 1) \div channels = buffer_idx
        THEN input[i * channels + ((k - 1) % channels) + 1]
        ELSE buf[k]]

\* The value returned on the skip path and at the end of the loop.
skip_return_complete == "paComplete"
skip_return == "paContinue"
process_return == "paContinue"

\* The chunk built from a full working buffer, lines 161-180.
full_chunk(ctx, duration_rounding) ==
    LET total_samples == ctx.samples_per_chunk * ctx.info.num_channels
    IN  audio_chunk(SubSeq(ctx.working_buffer, 1, total_samples),
                    ctx.info,
                    ctx.current_chunk_start_ns,
                    ctx.current_chunk_start_ns
                        + chunk_duration_ns(ctx.samples_per_chunk, ctx.info.sample_rate_hz,
                                            duration_rounding))

\* (variant: the chunk is built once the count has passed samples_per_chunk)
chunk_is_full_late(count, chunk_samples) == count > chunk_samples

\* if (ctx->current_sample_count == ctx->samples_per_chunk)
chunk_is_full(count, chunk_samples) == count = chunk_samples

\* dst_frame[0 .. num_channels - 1] lies inside working_buffer.
frame_fits(buf, buffer_idx, channels) == (buffer_idx + 1) * channels <= Len(buf)

\* A write past the end of working_buffer is undefined behaviour: the write
\* lands in other memory and the call returns, or the process is stopped.
\* A call that made no such write has its one defined outcome.
OutOfBoundsOutcomes(out_of_bounds) ==
    IF out_of_bounds > 0 THEN {"crash", "continue"} ELSE {"continue"}

\* Where a frame was captured: the elapsed device time of its delivery and
\* its index in the delivery.
FrameOrigin(elapsed, index) == [elapsed |-> elapsed, index |-> index]

\* The while loop of AudioCallback from frame i on. run.ctx is the stream
\* context; the other fields are history: run.origin, where the chunk being
\* accumulated began; run.frames, where each frame in the working buffer
\* was captured; run.emitted, the chunks built so far with their origin and
\* frames; run.out_of_bounds, the number of frames written outside the
\* working buffer.
RECURSIVE AudioCallback_frames(_, _, _, _, _)
AudioCallback_frames(run, input, framesPerBuffer, i, env) ==
    IF i >= framesPerBuffer
    THEN run
    ELSE LET ctx == run.ctx
             buffer_idx == ctx.current_sample_count
             origin == IF buffer_idx = 0
                       THEN Origin(env.seconds_since_stream_start, i, env.rounding[i])
                       ELSE run.origin
             start_ns == IF starts_new_chunk(buffer_idx)
                         THEN calculate_sample_timestamp(
                                  ctx, env.seconds_since_stream_start, i, env.rounding[i])
                         ELSE ctx.current_chunk_start_ns
             fits == frame_fits(ctx.working_buffer, buffer_idx, ctx.info.num_channels)
             out_of_bounds == run.out_of_bounds + (IF fits THEN 0 ELSE 1)
             copied == [ctx EXCEPT
                           !.current_chunk_start_ns = start_ns,
                           !.working_buffer =
                               IF fits
                               THEN copy_frame(@, buffer_idx, input, i, ctx.info.num_channels)
                               ELSE @,
                           !.current_sample_count = @ + 1]
             frames == Append(run.frames,
                              FrameOrigin(env.seconds_since_stream_start, i))
         IN  IF chunk_is_full(copied.current_sample_count, ctx.samples_per_chunk)
             THEN LET chunk == full_chunk(copied, env.duration_rounding)
                      pushed == [copied EXCEPT
                                    !.lockfree_queue = push_chunk(@, chunk),
                                    !.current_sample_count = 0]
                  IN  AudioCallback_frames(
                          [run EXCEPT
                              !.ctx = pushed, !.origin = origin, !.frames = <<>>,
                              !.emitted = Append(@, [chunk |-> chunk, origin |-> origin,
                                                     frames |-> frames]),
                              !.out_of_bounds = out_of_bounds],
                          input, framesPerBuffer, i + 1, env)
             ELSE AudioCallback_frames(
                      [run EXCEPT !.ctx = copied, !.origin = origin, !.frames = frames,
                                  !.out_of_bounds = out_of_bounds],
                      input, framesPerBuffer, i + 1, env)

\* AudioCallback(inputBuffer, framesPerBuffer, timeInfo, userData). env holds
\* what the environment supplies during the call: system_clock::now() and
\* the floating-point roundings.
AudioCallback(ctx, history, inputBuffer, framesPerBuffer, inputBufferAdcTime, env) ==
    IF callback_skips(inputBuffer, ctx.is_recording)
    THEN [ctx |-> ctx, origin |-> history.origin, frames |-> history.frames,
          emitted |-> <<>>, out_of_bounds |-> 0, ret |-> skip_return]
    ELSE LET anchored == capture_anchor(ctx, inputBufferAdcTime, env.now)
             seconds_since_stream_start ==
                 inputBufferAdcTime - anchored.first_callback_adc_time
             run == AudioCallback_frames(
                        [ctx |-> anchored, origin |-> history.origin,
                         frames |-> history.frames, emitted |-> <<>>,
                         out_of_bounds |-> 0],
                        Deref(inputBuffer), framesPerBuffer, 0,
                        [seconds_since_stream_start |-> seconds_since_stream_start,
                         rounding |-> env.rounding,
                         duration_rounding |-> env.duration_rounding])
         IN  [ctx |-> run.ctx, origin |-> run.origin, frames |-> run.frames,
              emitted |-> run.emitted, out_of_bounds |-> run.out_of_bounds,
              ret |-> process_return]

(***************************************************************************)
(* SpecCb: the audio subsystem delivers buffers to AudioCallback on the    *)
(* real-time thread; the application toggles is_recording.                 *)
(***************************************************************************)
SetStreamContext(ctx) ==
    /\ lockfree_queue' = ctx.lockfree_queue
    /\ working_buffer' = ctx.working_buffer
    /\ current_sample_count' = ctx.current_sample_count
    /\ current_chunk_start_ns' = ctx.current_chunk_start_ns
    /\ stream_start_time' = ctx.stream_start_time
    /\ first_callback_adc_time' = ctx.first_callback_adc_time
    /\ first_callback_captured' = ctx.first_callback_captured
    /\ is_recording' = ctx.is_recording
    /\ UNCHANGED <<info, samples_per_chunk, history_buffer, history_write_index>>

\* The interleaved samples of a delivery: every sample the callback
\* processes has its own value, numbered in delivery order from 1.
DeliveredSamples(framesPerBuffer) ==
    [k \in 1..(framesPerBuffer * info.num_channels) |->
        n_frames_in * info.num_channels + k]

\* The roundings the floating-point unit can produce for a delivery with
\* this elapsed device time: one per frame index.
DeliveryRoundings(framesPerBuffer, elapsed) ==
    {f \in [0..(framesPerBuffer - 1) -> {-1, 0}] :
        \A i \in DOMAIN f : f[i] \in fp_rounding(elapsed, i, info.sample_rate_hz)}

\* The elapsed device time the callback will compute for a delivery.
ElapsedAt(inputBufferAdcTime) ==
    inputBufferAdcTime
        - (IF first_callback_captured THEN first_callback_adc_time ELSE inputBufferAdcTime)

min2(a, b) == IF a < b THEN a ELSE b

\* cb_ret.value is the number of frames the call wrote outside the working
\* buffer. After a crash there is no process left to take a step.
InvokeAudioCallback ==
    \E present \in BOOLEAN,
       framesPerBuffer \in 0..min2(MaxFrames, MaxFramesIn - n_frames_in),
       inputBufferAdcTime \in {t \in AdcTimes : t >= last_adc_time} :
        \E rounding \in DeliveryRoundings(framesPerBuffer, ElapsedAt(inputBufferAdcTime)),
           duration_rounding \in fp_rounding(0, samples_per_chunk, info.sample_rate_hz) :
            LET inputBuffer == IF present THEN Ptr(DeliveredSamples(framesPerBuffer))
                               ELSE NULL
                env == [now |-> WallClockAt(inputBufferAdcTime), rounding |-> rounding,
                        duration_rounding |-> duration_rounding]
                r == AudioCallback(StreamContext,
                                   [origin |-> chunk_origin, frames |-> buffered_frames],
                                   inputBuffer, framesPerBuffer, inputBufferAdcTime, env)
            IN  /\ cb_ret.status /= "crash"
                /\ SetStreamContext(r.ctx)
                /\ cb_op' = "AudioCallback"
                /\ cb_arg' = [inputBuffer |-> inputBuffer,
                              framesPerBuffer |-> framesPerBuffer]
                /\ \E outcome \in OutOfBoundsOutcomes(r.out_of_bounds) :
                       cb_ret' = Returned(IF outcome = "crash" THEN "crash" ELSE r.ret,
                                          r.out_of_bounds)
                /\ cb_emitted' = r.emitted
                /\ chunk_origin' = r.origin
                /\ buffered_frames' = r.frames
                /\ n_frames_in' = n_frames_in
                                       + (IF callback_skips(inputBuffer, is_recording)
                                          THEN 0 ELSE framesPerBuffer)
                /\ last_adc_time' = inputBufferAdcTime
                /\ cb_history' = IF callback_skips(inputBuffer, is_recording)
                                 THEN (IF cb_history = "none" THEN "skipped"
                                       ELSE cb_history)
                                 ELSE "processed"
                /\ UNCHANGED <<op, arg, ret, n_pushed, offered, pre, recorded>>
                /\ UNCHANGED <<conc_vars, enc_vars, setup_vars>>

\* The application thread: is_recording.store(value).
SetIsRecording ==
    \E value \in BOOLEAN :
        /\ value /= is_recording
        /\ cb_ret.status /= "crash"
        /\ is_recording' = value
        /\ cb_op' = "set_is_recording"
        /\ cb_arg' = <<value>>
        /\ cb_ret' = Returned("ok", 0)
        /\ UNCHANGED <<info, working_buffer, samples_per_chunk, current_sample_count,
                       current_chunk_start_ns, stream_start_time, first_callback_adc_time,
                       first_callback_captured, cb_emitted, chunk_origin, n_frames_in,
                       last_adc_time, buffered_frames, cb_history>>
        /\ UNCHANGED <<stream_vars, op, arg, ret, n_pushed, offered, pre, recorded>>
        /\ UNCHANGED <<conc_vars, enc_vars, setup_vars>>

\* Elapsed times and sample indices calculate_sample_timestamp is called
\* with directly (the tests: 0.0 and 1.0 seconds, index 0 and 44100).
DirectElapsed == {0, NsPerSec \div 10, NsPerSec \div 4, NsPerSec}
DirectIndices == {0, 1, SamplesPerChunk, info.sample_rate_hz}

CallCalculateSampleTimestamp ==
    \E seconds_since_stream_start \in DirectElapsed, sample_index \in DirectIndices :
        \E rounding \in fp_rounding(seconds_since_stream_start, sample_index,
                                    info.sample_rate_hz) :
            /\ cb_op' = "calculate_sample_timestamp"
            /\ cb_arg' = [seconds_since_stream_start |-> seconds_since_stream_start,
                          sample_index |-> sample_index]
            /\ cb_ret' = Returned("ok",
                                  calculate_sample_timestamp(
                                      StreamContext, seconds_since_stream_start,
                                      sample_index, rounding))
            /\ UNCHANGED <<info, working_buffer, samples_per_chunk, current_sample_count,
                           current_chunk_start_ns, stream_start_time,
                           first_callback_adc_time, first_callback_captured,
                           is_recording, cb_emitted, chunk_origin, n_frames_in,
                           last_adc_time, buffered_frames, cb_history>>
            /\ UNCHANGED <<stream_vars, op, arg, ret, n_pushed, offered, pre, recorded>>
            /\ UNCHANGED <<conc_vars, enc_vars, setup_vars>>

InitCb ==
    /\ InitStream
    /\ InitHistoryVars
    /\ InitEnc
    /\ \E audio_info \in StreamInfos : InitCallback(audio_info, SamplesPerChunk)
    /\ InitSetup

NextCb ==
    \/ InvokeAudioCallback
    \/ SetIsRecording

SpecCb == InitCb /\ [][NextCb]_vars

(***************************************************************************)
(* SpecTs: calculate_sample_timestamp called on a context whose anchor was *)
(* never captured or was set by hand, as the tests do.                     *)
(***************************************************************************)
\* The tests' set-up: first_callback_adc_time, stream_start_time = now() and
\* first_callback_captured are written directly.
SetAnchor ==
    \E adc_time \in AdcTimes :
        /\ ~first_callback_captured
        /\ first_callback_adc_time' = adc_time
        /\ stream_start_time' = WallClockAt(adc_time)
        /\ first_callback_captured' = TRUE
        /\ cb_op' = "set_anchor"
        /\ cb_arg' = <<adc_time>>
        /\ cb_ret' = Returned("ok", 0)
        /\ UNCHANGED <<info, working_buffer, samples_per_chunk, current_sample_count,
                       current_chunk_start_ns, is_recording, cb_emitted, chunk_origin,
                       n_frames_in, last_adc_time, buffered_frames, cb_history>>
        /\ UNCHANGED <<stream_vars, op, arg, ret, n_pushed, offered, pre, recorded>>
        /\ UNCHANGED <<conc_vars, enc_vars, setup_vars>>

NextTs ==
    \/ SetAnchor
    \/ CallCalculateSampleTimestamp

SpecTs == InitCb /\ [][NextTs]_vars

(***************************************************************************)
(* SpecSizes: the callback on contexts constructed with every chunk sample *)
(* count from 0 up; the constructor accepts any samples_per_chunk.         *)
(***************************************************************************)
ChunkSampleCounts == 0..SamplesPerChunk

InitSizes ==
    /\ InitStream
    /\ InitHistoryVars
    /\ InitEnc
    /\ \E chunk_samples \in ChunkSampleCounts : InitCallback(TestInfo, chunk_samples)
    /\ InitSetup

SpecSizes == InitSizes /\ [][NextCb]_vars

(***************************************************************************)
(* setupStreamFromConfig: resolves the device and the stream parameters,   *)
(* validates the channel count, and opens a stream on a new context unless *)
(* the configuration is the active one. contexts and streams are the heap: *)
(* a pointer is an index into them. Times are in microseconds.             *)
(***************************************************************************)
\* The devices of the host, by PaDeviceIndex. Device 2 reports no name.
Devices ==
    [index \in 0..2 |->
        CASE index = 0 -> [name |-> Ptr("mic A"), maxInputChannels |-> 2,
                           defaultSampleRate |-> 20, defaultLowInputLatency |-> 10000]
          [] index = 1 -> [name |-> Ptr("mic B"), maxInputChannels |-> 1,
                           defaultSampleRate |-> 20, defaultLowInputLatency |-> 10000]
          [] index = 2 -> [name |-> NULL, maxInputChannels |-> 2,
                           defaultSampleRate |-> 20, defaultLowInputLatency |-> 10000]]

\* What the host does during a call: the default input device it reports,
\* whether it has information for the selected device, and whether opening
\* and starting a stream succeed. A call meets at most one fault: a fault
\* ends the call, so a later one would not be seen.
NoFault ==
    [default_device |-> 0, device_info_available |-> TRUE,
     open_succeeds |-> TRUE, start_succeeds |-> TRUE]

SetupEnvs ==
    {NoFault,
     [NoFault EXCEPT !.default_device = paNoDevice],
     [NoFault EXCEPT !.default_device = 2],
     [NoFault EXCEPT !.device_info_available = FALSE],
     [NoFault EXCEPT !.open_succeeds = FALSE],
     [NoFault EXCEPT !.start_succeeds = FALSE]}

\* ConfigParams: the device name ("" selects the default device) and the
\* optional sample rate, channel count and latency in milliseconds.
SetupParams ==
    [device_name : {"", "mic B", "absent"},
     sample_rate : {NULL, Ptr(40)},
     num_channels : {NULL, Ptr(2), Ptr(3)},
     latency_ms : {NULL, Ptr(20)}]

\* The index of the first device with this name, or paNoDevice.
findDeviceByName(name) ==
    IF \E index \in DOMAIN Devices : Devices[index].name = Ptr(name)
    THEN CHOOSE index \in DOMAIN Devices :
             /\ Devices[index].name = Ptr(name)
             /\ \A other \in DOMAIN Devices :
                    Devices[other].name = Ptr(name) => index <= other
    ELSE paNoDevice

\* audio_interface.getDeviceInfo(index): null when the host has no
\* information for the device.
getDeviceInfo(index, available) == IF available THEN Ptr(Devices[index]) ELSE NULL

value_or(optional, default) == IF optional = NULL THEN default ELSE Deref(optional)

\* Lines 8-43: the device index, its info and its name, or the failure.
resolve_device(device_name, env) ==
    IF device_name = ""
    THEN LET device_index == env.default_device
             deviceInfo == getDeviceInfo(device_index, env.device_info_available)
         IN  IF device_index = paNoDevice
             THEN [failed |-> TRUE]
             ELSE IF deviceInfo = NULL
             THEN [failed |-> TRUE]
             ELSE IF Deref(deviceInfo).name = NULL
             THEN [failed |-> TRUE]
             ELSE [failed |-> FALSE, device_index |-> device_index,
                   deviceInfo |-> Deref(deviceInfo),
                   new_device_name |-> Deref(Deref(deviceInfo).name)]
    ELSE LET device_index == findDeviceByName(device_name)
             deviceInfo == getDeviceInfo(device_index, env.device_info_available)
         IN  IF device_index = paNoDevice
             THEN [failed |-> TRUE]
             ELSE IF deviceInfo = NULL
             THEN [failed |-> TRUE]
             ELSE [failed |-> FALSE, device_index |-> device_index,
                   deviceInfo |-> Deref(deviceInfo),
                   new_device_name |-> device_name]

\* (variant: the channel count is not validated)
channels_exceed_device_unchecked(new_num_channels, deviceInfo) == FALSE

\* if (new_num_channels > deviceInfo->maxInputChannels)
channels_exceed_device(new_num_channels, deviceInfo) ==
    new_num_channels > deviceInfo.maxInputChannels

ActiveStreamConfig(device_name, rate, channels, latency) ==
    [device_name |-> device_name, sample_rate |-> rate, num_channels |-> channels,
     latency |-> latency]

\* (variant: every call is taken as a change of configuration)
config_unchanged_never(current_config, new_config) == FALSE

\* if (current_config == new_config)
config_unchanged(current_config, new_config) == current_config = new_config

\* new_sample_rate * CHUNK_DURATION_SECONDS, 100 ms chunks, as an int.
samples_per_chunk_for(new_sample_rate) == new_sample_rate \div 10

\* AudioStreamContext(audio_info, samples_per_chunk, history_capacity): the
\* object the constructor leaves.
AudioStreamContext(audio_info, chunk_samples, history_capacity) ==
    [info |-> audio_info,
     lockfree_queue |-> <<>>,
     history_buffer |-> [i \in 0..(history_capacity - 1) |-> EmptyChunk],
     history_write_index |-> 0,
     working_buffer |-> [k \in 1..(chunk_samples * audio_info.num_channels) |-> 0],
     samples_per_chunk |-> chunk_samples,
     current_sample_count |-> 0,
     current_chunk_start_ns |-> 0,
     stream_start_time |-> 0,
     first_callback_adc_time |-> 0,
     first_callback_captured |-> FALSE,
     is_recording |-> TRUE]

\* (variant: the active context is reset and resized in place)
install_context_in_place(session, new_audio_context) ==
    IF session.audio_context_ = NULL
    THEN [session EXCEPT !.contexts = Append(@, new_audio_context),
                         !.audio_context_ = Ptr(Len(session.contexts) + 1)]
    ELSE [session EXCEPT !.contexts[Deref(session.audio_context_)] = new_audio_context]

\* std::make_shared<AudioStreamContext>(...) and audio_context_ =
\* new_audio_context: a new object, the old one is left as it is.
install_context(session, new_audio_context) ==
    [session EXCEPT !.contexts = Append(@, new_audio_context),
                    !.audio_context_ = Ptr(Len(session.contexts) + 1)]

\* The assignments under stream_ctx_mu_ before the stream is opened.
set_configuration(session, device, config) ==
    [install_context(
         session,
         AudioStreamContext([sample_rate_hz |-> config.sample_rate,
                             num_channels |-> config.num_channels],
                            samples_per_chunk_for(config.sample_rate), HistCap))
     EXCEPT !.device_name_ = config.device_name,
            !.device_index_ = device.device_index,
            !.sample_rate_ = config.sample_rate,
            !.num_channels_ = config.num_channels,
            !.latency_ = config.latency]

\* openStream(&new_stream): opens a stream for the stored configuration
\* with audio_context_ as the callback's user data, or throws.
openStream(session) ==
    [session EXCEPT !.streams =
        Append(@, [state |-> "open", user_data |-> session.audio_context_,
                   config |-> ActiveStreamConfig(session.device_name_,
                                                 session.sample_rate_,
                                                 session.num_channels_,
                                                 session.latency_)])]

\* startStream(stream): the stream starts delivering, or throws.
startStream(session, stream) ==
    [session EXCEPT !.streams[Deref(stream)].state = "started"]

\* shutdownStream(stream): stops and closes the stream.
shutdownStream(session, stream) ==
    [session EXCEPT !.streams[Deref(stream)].state = "closed"]

Thrown(session, exception) == [session |-> session, ret |-> Returned(exception, 0)]

\* Lines 74-99 and 104-135: the new context and configuration are stored,
\* then the stream is opened and started, then stream_ is set.
open_configured_stream(session, device, config, env) ==
    LET configured == set_configuration(session, device, config)
        opened == openStream(configured)
        new_stream == Ptr(Len(opened.streams))
        started == startStream(opened, new_stream)
    IN  IF ~env.open_succeeds
        THEN Thrown(configured, "runtime_error")
        ELSE IF ~env.start_succeeds
        THEN Thrown(opened, "runtime_error")
        ELSE [session |-> [started EXCEPT !.stream_ = new_stream],
              ret |-> Returned("ok", 0)]

setupStreamFromConfig(session, params, env) ==
    LET device == resolve_device(params.device_name, env)
    IN  IF device.failed
        THEN Thrown(session, "runtime_error")
        ELSE
        LET deviceInfo == device.deviceInfo
            new_sample_rate == value_or(params.sample_rate, deviceInfo.defaultSampleRate)
            new_num_channels == value_or(params.num_channels, 1)
            new_latency == IF params.latency_ms /= NULL
                           THEN Deref(params.latency_ms) * 1000
                           ELSE deviceInfo.defaultLowInputLatency
            current_config == ActiveStreamConfig(session.device_name_, session.sample_rate_,
                                                 session.num_channels_, session.latency_)
            new_config == ActiveStreamConfig(device.new_device_name, new_sample_rate,
                                             new_num_channels, new_latency)
        IN  IF channels_exceed_device(new_num_channels, deviceInfo)
            THEN Thrown(session, "invalid_argument")
            ELSE IF session.stream_ /= NULL /\ config_unchanged(current_config, new_config)
            THEN [session |-> session, ret |-> Returned("ok", 0)]
            ELSE IF session.stream_ = NULL
            THEN open_configured_stream(session, device, new_config, env)
            ELSE open_configured_stream(shutdownStream(session, session.stream_),
                                        device, new_config, env)

(***************************************************************************)
(* SpecSetup: the application calls setupStreamFromConfig; a started       *)
(* stream delivers a first buffer to the context it was opened with.       *)
(***************************************************************************)
Session ==
    [device_name_ |-> device_name_, device_index_ |-> device_index_,
     sample_rate_ |-> sample_rate_, num_channels_ |-> num_channels_,
     latency_ |-> latency_, audio_context_ |-> audio_context_, stream_ |-> stream_,
     contexts |-> contexts, streams |-> streams]

SetSession(session) ==
    /\ device_name_' = session.device_name_
    /\ device_index_' = session.device_index_
    /\ sample_rate_' = session.sample_rate_
    /\ num_channels_' = session.num_channels_
    /\ latency_' = session.latency_
    /\ audio_context_' = session.audio_context_
    /\ stream_' = session.stream_
    /\ contexts' = session.contexts
    /\ streams' = session.streams

CallSetupStreamFromConfig ==
    \E params \in SetupParams, env \in SetupEnvs :
        LET r == setupStreamFromConfig(Session, params, env)
        IN  /\ setup_calls < MaxSetupCalls
            /\ SetSession(r.session)
            /\ setup_op' = "setupStreamFromConfig"
            /\ setup_arg' = [params |-> params, default_device |-> env.default_device,
                             device_info_available |-> env.device_info_available]
            /\ setup_ret' = r.ret
            /\ setup_calls' = setup_calls + 1
            /\ UNCHANGED <<ctx_vars, enc_vars>>

\* The frame counts of a context's first delivery: one frame, or a whole chunk.
FirstDeliveryFrames(ctx) == {1, ctx.samples_per_chunk}

\* The audio subsystem delivers to the context a started stream was opened
\* with.
StreamDelivers ==
    \E id \in DOMAIN streams :
        /\ streams[id].state = "started"
        /\ LET context == Deref(streams[id].user_data)
               ctx == contexts[context]
           IN  /\ ~ctx.first_callback_captured
               /\ \E framesPerBuffer \in FirstDeliveryFrames(ctx) :
                      LET input == [k \in 1..(framesPerBuffer * ctx.info.num_channels) |-> k]
                          env == [now |-> WallClockAt(0),
                                  rounding |-> [i \in 0..(framesPerBuffer - 1) |-> 0],
                                  duration_rounding |-> 0]
                          r == AudioCallback(ctx, [origin |-> Origin(0, 0, 0),
                                                   frames |-> <<>>],
                                             Ptr(input), framesPerBuffer, 0, env)
                      IN  /\ contexts' = [contexts EXCEPT ![context] = r.ctx]
                          /\ setup_op' = "AudioCallback"
                          /\ setup_arg' = <<context, framesPerBuffer>>
                          /\ setup_ret' = Returned(r.ret, 0)
        /\ UNCHANGED <<session_vars, streams, setup_calls>>
        /\ UNCHANGED <<ctx_vars, enc_vars>>

NextSetup ==
    \/ CallSetupStreamFromConfig
    \/ StreamDelivers

SpecSetup == Init /\ [][NextSetup]_vars

(***************************************************************************)
(* Properties of the callback.                                             *)
(***************************************************************************)
\* The last step was AudioCallback and it took the skip path / went on to
\* process the delivery.
CallbackSkipped ==
    cb_op = "AudioCallback" /\ (cb_arg.inputBuffer = NULL \/ ~is_recording)

CallbackProcessed ==
    cb_op = "AudioCallback" /\ cb_arg.inputBuffer /= NULL /\ is_recording

\* C16: a callback invoked with a null input buffer, or while is_recording
\* is false, changes nothing in the stream context: sample count, working
\* buffer, in-flight start timestamp, anchor flag and both baselines, queue
\* and history stay as they were, and no chunk is built or pushed.
C16_SkippedCallbackTouchesNothing ==
    [][(cb_op' = "AudioCallback" /\ (cb_arg'.inputBuffer = NULL \/ ~is_recording))
          => /\ UNCHANGED <<current_sample_count, working_buffer,
                            current_chunk_start_ns, first_callback_captured,
                            first_callback_adc_time, stream_start_time,
                            lockfree_queue, history_buffer, history_write_index,
                            is_recording, info>>
             /\ cb_emitted' = <<>>]_vars

C16_Witness ==
    /\ CallbackSkipped
    /\ ~is_recording
    /\ cb_arg.inputBuffer /= NULL
    /\ cb_arg.framesPerBuffer >= SamplesPerChunk
    /\ current_sample_count > 0
    /\ first_callback_captured
    /\ lockfree_queue /= <<>>

\* C17: every invocation of AudioCallback returns paContinue, on the skip
\* path and on the processing path, whatever the frame count and however
\* full the queue is.
C17_CallbackReturnsContinue ==
    cb_op = "AudioCallback" => cb_ret = Returned("paContinue", 0)

C17_Witness ==
    /\ CallbackProcessed
    /\ cb_arg.framesPerBuffer = MaxFrames
    /\ Len(lockfree_queue) = QueueCap
    /\ cb_emitted /= <<>>
    /\ \A k \in 1..Len(lockfree_queue) :
           lockfree_queue[k] /= cb_emitted[Len(cb_emitted)].chunk
    /\ cb_ret.status = "paContinue"

\* C18: the anchor is captured once: the first processed delivery sets the
\* flag and both baselines; once the flag is true it stays true and neither
\* the device-clock baseline nor the wall-clock baseline is written again.
C18_AnchorCapturedOnce ==
    [][/\ first_callback_captured
          => /\ first_callback_captured'
             /\ first_callback_adc_time' = first_callback_adc_time
             /\ stream_start_time' = stream_start_time
       /\ (~first_callback_captured /\ first_callback_captured')
          => /\ first_callback_adc_time' = last_adc_time'
             /\ stream_start_time' = WallClockAt(last_adc_time')]_vars

C18_Witness ==
    /\ CallbackProcessed
    /\ cb_arg.framesPerBuffer > 0
    /\ first_callback_captured
    /\ first_callback_adc_time < last_adc_time
    /\ stream_start_time = WallClockAt(first_callback_adc_time)

\* C19: calculate_sample_timestamp returns the anchor wall-clock time plus
\* the elapsed device time plus index / rate seconds, in whole nanoseconds
\* (the truncated double can fall one nanosecond short); elapsed 0, index 0
\* gives exactly the anchor, elapsed 1 s, index 0 gives the anchor plus
\* 1,000,000,000 ns, and at 44100 Hz elapsed 0, index 44100 gives the
\* anchor plus one second within one microsecond.
C19_TimestampIsAnchorPlusElapsedPlusOffset ==
    cb_op = "calculate_sample_timestamp"
        => LET E == cb_arg.seconds_since_stream_start
               i == cb_arg.sample_index
               R == info.sample_rate_hz
               T0 == stream_start_time
               t == cb_ret.value
           IN  /\ t \in {T0 + E + seconds_to_ns(i, R) - 1, T0 + E + seconds_to_ns(i, R)}
               /\ (E = 0 /\ i = 0) => t = T0
               /\ (E = NsPerSec /\ i = 0) => t = T0 + NsPerSec
               /\ (E = 0 /\ i = R) => (t - (T0 + NsPerSec)) \in -1000..1000
               /\ (E = 0 /\ i = 1 /\ R = 4) => t = T0 + NsPerSec \div 4
               /\ (E = 0 /\ i = 1 /\ R = 44100) => t = T0 + 22675

C19_Witness ==
    /\ cb_op = "calculate_sample_timestamp"
    /\ first_callback_captured
    /\ info.sample_rate_hz = 44100
    /\ cb_arg.seconds_since_stream_start = 0
    /\ cb_arg.sample_index = 44100
    /\ cb_ret.value = stream_start_time + NsPerSec

\* C20: every chunk the callback builds has as start timestamp the
\* timestamp computed for the first frame copied into it (delivery and
\* frame index at which the sample count was zero), as end timestamp its
\* start plus samples_per_chunk / sample rate in nanoseconds, so end >=
\* start, and carries the context's audio_info.
C20_EmittedChunkTimestampsAndInfo ==
    cb_op = "AudioCallback"
        => \A k \in 1..Len(cb_emitted) :
              LET chunk == cb_emitted[k].chunk
                  origin == cb_emitted[k].origin
              IN  /\ chunk.start_timestamp_ns =
                         calculate_sample_timestamp(StreamContext, origin.elapsed,
                                                    origin.index, origin.rounding)
                  /\ chunk.end_timestamp_ns - chunk.start_timestamp_ns
                         = seconds_to_ns(SamplesPerChunk, info.sample_rate_hz)
                  /\ chunk.end_timestamp_ns >= chunk.start_timestamp_ns
                  /\ chunk.info = info

C20_Witness ==
    /\ CallbackProcessed
    /\ cb_emitted /= <<>>
    /\ cb_emitted[1].origin.index > 0
    /\ cb_emitted[1].origin.elapsed < last_adc_time - first_callback_adc_time
    /\ cb_emitted[1].chunk.start_timestamp_ns > stream_start_time
    /\ cb_emitted[1].chunk.end_timestamp_ns > cb_emitted[1].chunk.start_timestamp_ns

(***************************************************************************)
(* Construction and the history's write cursor.                            *)
(***************************************************************************)
\* C21: a freshly constructed context has a working buffer of
\* samples_per_chunk x channels entries, sample count 0, recording enabled,
\* no anchor, history_capacity empty history slots with the write cursor at
\* 0, and an empty queue: a drain returns nothing.
C21_FreshContext ==
    n_pushed = 0
        => /\ Len(working_buffer) = SamplesPerChunk * info.num_channels
           /\ current_sample_count = 0
           /\ is_recording
           /\ ~first_callback_captured
           /\ DOMAIN history_buffer = 0..(HistCap - 1)
           /\ \A i \in DOMAIN history_buffer :
                 /\ history_buffer[i].start_timestamp_ns = 0
                 /\ history_buffer[i].audio_data = 0
           /\ history_write_index = 0
           /\ lockfree_queue = <<>>
           /\ op = "get_new_chunks" => ret = <<>>

C21_Witness ==
    /\ n_pushed = 0
    /\ op = "get_new_chunks"
    /\ ret = <<>>
    /\ Len(working_buffer) = SamplesPerChunk

\* C30: get_new_chunks writes every chunk it returns to the history in
\* drain order: the k-th chunk ever drained is in slot (k - 1) mod capacity
\* until capacity later chunks have been drained, the write cursor is the
\* number of chunks drained mod capacity, and the history keeps exactly
\* capacity slots.
C30_HistoryRecordsDrainedInOrder ==
    /\ DOMAIN history_buffer = 0..(HistCap - 1)
    /\ history_write_index = Len(recorded) % HistCap
    /\ \A k \in 1..Len(recorded) :
           k > Len(recorded) - HistCap
               => history_buffer[(k - 1) % HistCap] = recorded[k]
    /\ op = "get_new_chunks"
           => /\ Len(ret) <= Len(recorded)
              /\ ret = SubSeq(recorded, Len(recorded) - Len(ret) + 1, Len(recorded))

C30_Witness ==
    /\ op = "get_new_chunks"
    /\ Len(ret) >= 2
    /\ Len(recorded) > HistCap
    /\ history_write_index /= 0

\* C22: the producer path never takes history_mutex and never reads or
\* writes the history: a push leaves history_buffer, history_write_index and
\* history_mutex as they were, and it can be taken whenever the consumer
\* holds the mutex, however long it holds it.
C22_ProducerNeverTouchesHistory ==
    /\ [][n_pushed' /= n_pushed
             => UNCHANGED <<history_buffer, history_write_index, history_mutex>>]_vars
    /\ []((history_mutex /= "free" /\ n_pushed < MaxPushes) => ENABLED ProducerPush)

C22_Witness ==
    /\ history_mutex = "consumer"
    /\ c_pc = "record"
    /\ n_pushed = MaxPushes
    /\ Len(lockfree_queue) = QueueCap
    /\ c_chunk = accepted[1]

(***************************************************************************)
(* Properties of chunk assembly.                                           *)
(***************************************************************************)
\* The queue after every chunk of entries was passed to push_chunk in order.
RECURSIVE OfferAll(_, _)
OfferAll(q, entries) ==
    IF entries = <<>> THEN q
    ELSE OfferAll(push_chunk(q, Head(entries).chunk), Tail(entries))

\* The audio data of the chunks of entries, concatenated.
RECURSIVE ChunkData(_)
ChunkData(entries) ==
    IF entries = <<>> THEN <<>>
    ELSE Head(entries).chunk.audio_data \o ChunkData(Tail(entries))

\* The samples of the count frames accumulated in the working buffer.
Accumulated(buf, count, channels) == SubSeq(buf, 1, count * channels)

\* C25: with samples_per_chunk S >= 1, a callback that processes F frames
\* starting from sample count c builds exactly (c + F) div S chunks, passes
\* each to the queue, and leaves the count at (c + F) mod S; the count is
\* in 0 .. S - 1 whenever the callback is not running.
C25_ChunksPerDelivery ==
    /\ [](samples_per_chunk >= 1
             => (0 <= current_sample_count /\ current_sample_count < samples_per_chunk))
    /\ [][(/\ samples_per_chunk >= 1
           /\ cb_op' = "AudioCallback"
           /\ cb_arg'.inputBuffer /= NULL
           /\ is_recording)
          => LET c == current_sample_count
                 F == cb_arg'.framesPerBuffer
                 S == samples_per_chunk
             IN  /\ Len(cb_emitted') = (c + F) \div S
                 /\ current_sample_count' = (c + F) % S
                 /\ lockfree_queue' = OfferAll(lockfree_queue, cb_emitted')]_vars

C25_Witness ==
    /\ CallbackProcessed
    /\ samples_per_chunk = SamplesPerChunk
    /\ cb_arg.framesPerBuffer = MaxFrames
    /\ Len(cb_emitted) >= 2
    /\ Len(cb_emitted[1].frames) = SamplesPerChunk
    /\ cb_emitted[1].frames[1].index = 0
    /\ cb_emitted[1].frames[2].index = 0
    /\ current_sample_count = (1 + MaxFrames) % SamplesPerChunk

\* C26: no sample is lost, duplicated or reordered: the data of the chunks
\* a processing callback builds, followed by the samples left accumulated
\* in the working buffer, is the samples that were accumulated before
\* followed by the delivery's samples as delivered (channels of a frame
\* adjacent, in order); every chunk holds samples_per_chunk x channels
\* samples.
C26_SamplesConserved ==
    [][(cb_op' = "AudioCallback" /\ cb_arg'.inputBuffer /= NULL /\ is_recording)
          => /\ ChunkData(cb_emitted')
                    \o Accumulated(working_buffer', current_sample_count',
                                   info.num_channels)
                 = Accumulated(working_buffer, current_sample_count, info.num_channels)
                       \o Deref(cb_arg'.inputBuffer)
             /\ \A k \in 1..Len(cb_emitted') :
                    Len(cb_emitted'[k].chunk.audio_data)
                        = samples_per_chunk * info.num_channels]_vars

C26_Witness ==
    /\ CallbackProcessed
    /\ info.num_channels = 2
    /\ cb_arg.framesPerBuffer = MaxFrames
    /\ Len(cb_emitted) >= 1
    /\ current_sample_count > 0
    /\ cb_emitted[1].chunk.audio_data[2] = Deref(cb_arg.inputBuffer)[2]
    /\ working_buffer[1] = Deref(cb_arg.inputBuffer)[Len(Deref(cb_arg.inputBuffer)) - 1]

\* C27 (as stated): the anchor is captured on the very first invocation of
\* AudioCallback: when the first invocation returns, the flag is true and
\* the device-clock baseline is that invocation's capture timestamp.
C27_AnchorCapturedOnFirstInvocation ==
    [][(cb_op' = "AudioCallback" /\ cb_history = "none")
          => /\ first_callback_captured'
             /\ first_callback_adc_time' = last_adc_time']_vars

\* C27 (amended): the anchor is captured on the first invocation that is
\* not skipped: until an invocation has a non-null input buffer while
\* recording is enabled the flag stays false, and when the first such
\* invocation returns the flag is true and the device-clock baseline is
\* that invocation's capture timestamp.
C27_AnchorCapturedOnFirstProcessedInvocation ==
    /\ [](cb_history /= "processed" => ~first_callback_captured)
    /\ [][(/\ cb_op' = "AudioCallback"
           /\ cb_arg'.inputBuffer /= NULL
           /\ is_recording
           /\ cb_history /= "processed")
          => /\ first_callback_captured'
             /\ first_callback_adc_time' = last_adc_time']_vars

C27_Witness ==
    /\ CallbackProcessed
    /\ cb_history = "processed"
    /\ first_callback_captured
    /\ first_callback_adc_time = last_adc_time
    /\ last_adc_time > 0
    /\ n_frames_in = 0

\* C28 (as stated): every chunk covers one contiguous time span: the
\* capture time of each frame stored in it (anchor wall-clock time plus the
\* elapsed device time of its delivery plus index / rate) is at or after
\* the chunk's start timestamp and before its end timestamp.
C28_ChunkCoversItsFrames ==
    \A k \in 1..Len(cb_emitted) :
        \A j \in 1..Len(cb_emitted[k].frames) :
            LET captured == stream_start_time + cb_emitted[k].frames[j].elapsed
                                + seconds_to_ns(cb_emitted[k].frames[j].index,
                                                info.sample_rate_hz)
            IN  /\ cb_emitted[k].chunk.start_timestamp_ns <= captured
                /\ captured < cb_emitted[k].chunk.end_timestamp_ns

\* C29 (as stated): every write AudioCallback makes into the working buffer
\* is inside it, for every chunk sample count the context was constructed
\* with and every delivery size.
C29_WritesWithinBounds ==
    cb_op = "AudioCallback" => (cb_ret.value = 0 /\ cb_ret.status /= "crash")

(***************************************************************************)
(* Properties of setupStreamFromConfig.                                    *)
(***************************************************************************)
\* The device a call selected, and the configuration it resolved, from the
\* call's input.
SelectedDevice(call) ==
    resolve_device(call.params.device_name,
                   [default_device |-> call.default_device,
                    device_info_available |-> call.device_info_available])

ResolvedConfig(call) ==
    LET device == SelectedDevice(call)
    IN  ActiveStreamConfig(
            device.new_device_name,
            value_or(call.params.sample_rate, device.deviceInfo.defaultSampleRate),
            value_or(call.params.num_channels, 1),
            IF call.params.latency_ms = NULL
            THEN device.deviceInfo.defaultLowInputLatency
            ELSE Deref(call.params.latency_ms) * 1000)

ActiveConfig == ActiveStreamConfig(device_name_, sample_rate_, num_channels_, latency_)

ExceedsDeviceChannels(call) ==
    ResolvedConfig(call).num_channels > SelectedDevice(call).deviceInfo.maxInputChannels

\* ctx is as the constructor leaves a context for this configuration.
FreshContextFor(ctx, config) ==
    /\ ctx.info = [sample_rate_hz |-> config.sample_rate,
                   num_channels |-> config.num_channels]
    /\ ctx.samples_per_chunk = config.sample_rate \div 10
    /\ Len(ctx.working_buffer) = (config.sample_rate \div 10) * config.num_channels
    /\ ctx.current_sample_count = 0
    /\ ~ctx.first_callback_captured
    /\ ctx.lockfree_queue = <<>>
    /\ \A i \in DOMAIN ctx.history_buffer : ctx.history_buffer[i] = EmptyChunk
    /\ ctx.history_write_index = 0

\* This step installs a new context object, fresh for the configuration the
\* call resolved, and leaves every context that existed as it was.
InstallsNewContext ==
    /\ audio_context_' /= NULL
    /\ Deref(audio_context_') \notin DOMAIN contexts
    /\ Deref(audio_context_') \in DOMAIN contexts'
    /\ FreshContextFor(contexts'[Deref(audio_context_')], ResolvedConfig(setup_arg'))
    /\ \A id \in DOMAIN contexts : contexts'[id] = contexts[id]

\* C23 (as stated): whenever setupStreamFromConfig is called with a resolved
\* configuration that differs from the active one in device name, sample
\* rate, channel count or latency, it installs a brand-new context and
\* does not change the previous one.
C23_ChangedConfigInstallsNewContext ==
    [][(/\ setup_calls' /= setup_calls
        /\ ~SelectedDevice(setup_arg').failed
        /\ ResolvedConfig(setup_arg') /= ActiveConfig)
          => InstallsNewContext]_vars

\* C23 (amended): whenever setupStreamFromConfig is called with a resolved
\* configuration that passes the channel-count validation and differs from
\* the active one, it installs a brand-new context (count 0, anchor not
\* captured, empty queue and history, buffers sized for the new rate and
\* channel count) and leaves the previous context's buffers as they were.
C23_ValidChangedConfigInstallsNewContext ==
    [][(/\ setup_calls' /= setup_calls
        /\ ~SelectedDevice(setup_arg').failed
        /\ ~ExceedsDeviceChannels(setup_arg')
        /\ ResolvedConfig(setup_arg') /= ActiveConfig)
          => InstallsNewContext]_vars

C23_Witness ==
    /\ setup_op = "setupStreamFromConfig"
    /\ setup_ret.status = "ok"
    /\ audio_context_ = Ptr(2)
    /\ contexts[1].first_callback_captured
    /\ contexts[1].lockfree_queue /= <<>>
    /\ contexts[1].info.sample_rate_hz /= contexts[2].info.sample_rate_hz
    /\ contexts[1].info.num_channels /= contexts[2].info.num_channels
    /\ FreshContextFor(contexts[2], ActiveConfig)
    /\ streams[1].state = "closed"
    /\ stream_ = Ptr(2)

\* C24: a call whose channel count is above the selected device's maximum
\* input channels fails with invalid_argument and changes nothing: device
\* name, sample rate, channel count, latency, context and stream handle
\* stay as they were, and no stream is opened or shut down.
C24_ExcessChannelsRejectedBeforeAnyChange ==
    [][(/\ setup_calls' /= setup_calls
        /\ ~SelectedDevice(setup_arg').failed
        /\ ExceedsDeviceChannels(setup_arg'))
          => /\ setup_ret'.status = "invalid_argument"
             /\ UNCHANGED <<device_name_, device_index_, sample_rate_, num_channels_,
                            latency_, audio_context_, stream_, contexts, streams>>]_vars

C24_Witness ==
    /\ setup_op = "setupStreamFromConfig"
    /\ setup_ret.status = "invalid_argument"
    /\ setup_arg.params.num_channels = Ptr(3)
    /\ stream_ /= NULL
    /\ streams[Deref(stream_)].state = "started"
    /\ num_channels_ = 2

\* The stream the stored handle refers to is open and started.
StreamActive == stream_ /= NULL /\ streams[Deref(stream_)].state = "started"

\* C36: setupStreamFromConfig called while a stream is active with a
\* resolved configuration equal to the active one changes nothing: the
\* stream is neither shut down nor reopened, no stream is opened, and the
\* context, with its queue, history, accumulated samples and anchor, is the
\* same object in the same state.
C36_UnchangedConfigChangesNothing ==
    [][(/\ setup_calls' /= setup_calls
        /\ StreamActive
        /\ ~SelectedDevice(setup_arg').failed
        /\ ResolvedConfig(setup_arg') = ActiveConfig)
          => /\ setup_ret'.status = "ok"
             /\ UNCHANGED <<device_name_, device_index_, sample_rate_, num_channels_,
                            latency_, audio_context_, stream_, contexts, streams>>]_vars

C36_Witness ==
    /\ setup_op = "setupStreamFromConfig"
    /\ setup_calls = 2
    /\ setup_ret.status = "ok"
    /\ ~SelectedDevice(setup_arg).failed
    /\ ResolvedConfig(setup_arg) = ActiveConfig
    /\ Len(streams) = 1
    /\ StreamActive
    /\ audio_context_ = Ptr(1)
    /\ contexts[1].first_callback_captured
    /\ contexts[1].current_sample_count > 0

\* C37 (as stated): after any sequence of setupStreamFromConfig calls,
\* failed ones included, the stored stream handle is null or refers to a
\* stream that is open and started, and the stored device name, sample
\* rate, channel count, latency and context are the ones that stream was
\* opened with.
C37_StreamHandleIsNullOrLive ==
    stream_ /= NULL
        => /\ streams[Deref(stream_)].state = "started"
           /\ streams[Deref(stream_)].config = ActiveConfig
           /\ streams[Deref(stream_)].user_data = audio_context_

\* The samples the last encode call had before it: the ones buffered
\* followed by the ones passed in.
Offered == enc_pre.state.buffer \o enc_arg

\* Frames the last call submitted to the codec.
NewFrames == Len(sent_frames) - enc_pre.sent

\* C38: every frame encode submits holds, for every channel ch and every
\* frame position i, plane[ch][i] = interleaved[i * channels + ch], where
\* interleaved is the first frame size x channels samples of the
\* accumulation buffer at that iteration; building the planes removes
\* nothing from the buffer: what the call leaves buffered is what follows
\* the submitted frames.
C38_PlanesDeinterleaveBufferHead ==
    EncodeInReady
        => /\ \A j \in 1..NewFrames :
                LET planes == sent_frames[enc_pre.sent + j]
                IN  /\ DOMAIN planes = 0..(enc_pre.state.num_channels - 1)
                    /\ \A ch \in DOMAIN planes :
                          /\ DOMAIN planes[ch] = 0..(FrameSize - 1)
                          /\ \A i \in DOMAIN planes[ch] :
                                planes[ch][i] =
                                    Offered[(j - 1) * PreFrameSamples
                                            + i * enc_pre.state.num_channels + ch + 1]
           /\ buffer = SubSeq(Offered, NewFrames * PreFrameSamples + 1, Len(Offered))

C38_Witness ==
    /\ EncodeInReady
    /\ enc_pre.state.num_channels = 2
    /\ enc_pre.state.buffer /= <<>>
    /\ NewFrames = 1
    /\ sent_frames[Len(sent_frames)][1][0] = Offered[2]
    /\ sent_frames[Len(sent_frames)][0][1] = Offered[3]

\* The samples of one submitted frame, back in interleaved order.
Interleaved(planes) ==
    LET channels == Cardinality(DOMAIN planes)
    IN  [k \in 1..(FrameSize * channels) |->
            planes[(k - 1) % channels][(k - 1) \div channels]]

\* The samples submitted to the codec after its first k frames, in order.
RECURSIVE SubmittedSince(_)
SubmittedSince(k) ==
    IF k >= Len(sent_frames)
    THEN <<>>
    ELSE Interleaved(sent_frames[k + 1]) \o SubmittedSince(k + 1)

\* The samples passed to encode are numbered 1, 2, ... in the order passed:
\* seq is a prefix of the ones passed after the first `skipped`.
IsPrefixOfPassed(seq, skipped) ==
    /\ skipped + Len(seq) <= n_samples_in
    /\ \A k \in 1..Len(seq) : seq[k] = skipped + k

\* Whole frames in what the last encode call was offered.
OfferedFrames == Len(Offered) \div PreFrameSamples

\* C33 (as stated): in Ready state with b samples buffered and a frame of
\* P = frame sample count x channel count samples, encode with n samples
\* submits exactly floor((b + n) / P) frames, leaves (b + n) mod P samples
\* buffered, and the samples submitted across all encode calls are, in
\* order, a prefix of all the samples ever passed to encode.
C33_FloorFramesAndPrefixOfAllSamples ==
    (EncodeInReady /\ PreFrameSamples > 0)
        => /\ NewFrames = OfferedFrames
           /\ Len(buffer) = Len(Offered) % PreFrameSamples
           /\ IsPrefixOfPassed(SubmittedSince(0), 0)

\* C33 (amended): in Ready state with b samples buffered, an encode call
\* with n samples that returns normally submits exactly floor((b + n) / P)
\* frames and leaves (b + n) mod P samples buffered; a call that throws has
\* submitted k <= floor((b + n) / P) frames and leaves the other
\* b + n - k * P samples buffered; the samples submitted since the last
\* successful initialize are, in order, a prefix of the samples passed to
\* encode since then.
C33_FloorFramesOnReturnAndPrefixOfSession ==
    (EncodeInReady /\ PreFrameSamples > 0)
        => /\ enc_ret.status = "ok"
                => /\ NewFrames = OfferedFrames
                   /\ Len(buffer) = Len(Offered) % PreFrameSamples
           /\ NewFrames <= OfferedFrames
           /\ Len(buffer) = Len(Offered) - NewFrames * PreFrameSamples
           /\ IsPrefixOfPassed(SubmittedSince(session_start.sent), session_start.samples)

C33_Witness ==
    /\ EncodeInReady
    /\ enc_ret.status = "ok"
    /\ session_start.samples > 0
    /\ enc_pre.state.buffer /= <<>>
    /\ NewFrames = 2
    /\ SubmittedSince(session_start.sent) /= <<>>

\* C34 (as stated): during encode in Ready state no negative answer of the
\* codec makes the call fail: it is not an error ("not enough data yet") or
\* it is logged, and the call goes on to process the remaining complete
\* frames of the accumulation buffer.
C34_NoCodecAnswerFailsEncode ==
    (EncodeInReady /\ PreFrameSamples > 0)
        => /\ enc_error /= "Error sending frame to MP3 encoder"
           /\ enc_warnings > 0 => (enc_ret.status = "ok" /\ NewFrames = OfferedFrames)

\* C34 (amended): during encode in Ready state no negative answer of the
\* codec to the poll for output makes the call fail: "not enough data yet"
\* is not an error, any other one is logged, and the call goes on to
\* process the remaining complete frames of the accumulation buffer. A
\* negative answer to the submission of a frame makes encode throw
\* runtime_error, that frame and what follows it staying in the buffer.
C34_NoPollAnswerFailsEncode ==
    (EncodeInReady /\ PreFrameSamples > 0)
        => /\ enc_error \in {"", "Error sending frame to MP3 encoder",
                             "Could not allocate packet"}
           /\ enc_ret.status = "runtime_error" <=> enc_error /= ""
           /\ enc_warnings > 0 => (enc_ret.status = "ok" /\ NewFrames = OfferedFrames)
           /\ enc_error = "Error sending frame to MP3 encoder"
                 => /\ NewFrames < OfferedFrames
                    /\ Len(buffer) = Len(Offered) - NewFrames * PreFrameSamples

C34_Witness ==
    /\ EncodeInReady
    /\ enc_warnings = 1
    /\ enc_ret.status = "ok"
    /\ NewFrames = 2
    /\ output_data > enc_pre.state.output_data

\* C35: the encoder is Ready exactly when a codec session and a frame buffer
\* are both attached; only a successful initialize makes it Ready and only
\* cleanup makes it Uninitialized; encode and flush leave it in the state it
\* was in, with the same codec session and frame buffer attached or absent
\* and the recorded sample rate and channel count unchanged.
C35_OnlyInitializeAndCleanupChangeState ==
    [][/\ (~Ready(EncoderState) /\ Ready(EncoderState'))
              => (enc_op' = "initialize" /\ enc_ret'.status = "ok")
       /\ (~Uninitialized(EncoderState) /\ Uninitialized(EncoderState'))
              => enc_op' = "cleanup"
       /\ enc_op' \in {"encode", "flush"}
              => /\ Ready(EncoderState') = Ready(EncoderState)
                 /\ (encoder_ctx' = NULL) = (encoder_ctx = NULL)
                 /\ (frame' = NULL) = (frame = NULL)
                 /\ UNCHANGED <<sample_rate, num_channels>>]_vars

\* The k-th chunk the producer pushes.
PushedChunk(k) == Chunk(k, k, k + ChunkDur)

\* C32: with finitely many pushes and a consumer that keeps calling
\* get_new_chunks, every drain call terminates, every chunk the queue
\* accepted is eventually returned by some drain, and from some point on
\* (the producer having stopped) the number of chunks returned equals the
\* number of accepted pushes and the queue is empty.
C32_EveryAcceptedChunkIsEventuallyDrained ==
    /\ (c_pc /= "idle") ~> (c_pc = "idle")
    /\ \A k \in 1..MaxPushes :
          (PushedChunk(k) \in Range(accepted)) ~> (PushedChunk(k) \in Range(drained))
    /\ <>[](Len(drained) = Len(accepted) /\ lockfree_queue = <<>>)

C32_Witness ==
    /\ n_pushed = MaxPushes
    /\ c_pc = "idle"
    /\ lockfree_queue = <<>>
    /\ Len(accepted) >= 2
    /\ Len(accepted) < n_pushed
    /\ drained = accepted

\* The history ring buffer as it stood after the first k records.
HistoryAfter(k) ==
    [i \in Slots |->
        LET written == {j \in 1..k : (j - 1) % HistCap = i}
        IN  IF written = {} THEN EmptyChunk ELSE recorded[SetMax(written)]]

\* What the query called last returns on the history `hist`.
QueryOn(hist) ==
    IF q_call.op = "get_available_time_range"
    THEN get_available_time_range(hist)
    ELSE get_chunks_from_timestamp(hist, q_call.arg[1], q_call.arg[2])

QueryReturned == q_pc = "idle" /\ q_call.op /= "none"

\* C31: a record of get_new_chunks and a history query never run at the
\* same time: the consumer is not between taking and releasing
\* history_mutex while a query scans, and what a query returns is what the
\* same query returns on the history as it stood after some whole number k
\* of records, k being at least the records made before the query was
\* called and at most the records made when it returned.
C31_QuerySeesWholeRecords ==
    /\ ~(c_pc = "record" /\ q_pc = "scan")
    /\ q_pc = "scan" => history_mutex = "query"
    /\ QueryReturned
           => \E k \in q_call.recorded..Len(recorded) : q_ret = QueryOn(HistoryAfter(k))

C31_Witness ==
    /\ QueryReturned
    /\ q_call.op = "get_chunks_from_timestamp"
    /\ Len(q_ret) = HistCap
    /\ Len(recorded) > HistCap
    /\ q_call.recorded < Len(recorded)
    /\ c_pc = "lock"
    /\ q_ret /= QueryOn(HistoryAfter(q_call.recorded))

====
